---- MODULE Spec2Model ----
(***************************************************************************)
(* Model of the widget tools of pkg/aiusechat/tools_widget.go: the four    *)
(* tool callbacks widget_open, widget_close, widget_rename and widget_move *)
(* with their input parsers, running as concurrent invocations against    *)
(* the block store, the per-tab layout action queue, the block controller  *)
(* starter and the update broker.                                          *)
(*                                                                         *)
(* Every collaborator call of a callback is one atomic step of the        *)
(* invocation; the statements between two calls belong to the step of the  *)
(* call that precedes them.  The callbacks take no lock, so the steps of   *)
(* different invocations interleave freely.                                *)
(***************************************************************************)
EXTENDS Integers, Sequences, FiniteSets, TLC

(***************************************************************************)
(* Bounds                                                                  *)
(***************************************************************************)
\* number of tool invocations started in one behaviour
MaxCmds == 2

\* concurrent invocations (goroutines running a tool callback)
Procs == {1, 2}

\* tabs
Tabs == {"tab1", "tab2"}

\* the tab id the tool definitions of an invocation were made for
\* (GetWidget...ToolDefinition(tabId)); tab2 is the tab no tool is bound to
TabOf(p) == "tab1"

(***************************************************************************)
(* Identifiers.  A block id is a sequence of characters; the short widget  *)
(* id is its first ShortIdLen characters (OID[:8]).                        *)
(***************************************************************************)
ShortIdLen == 8

IdA == <<"a", "b", "1", "2", "c", "d", "3", "4", "0">>
IdB == <<"a", "b", "1", "2", "c", "d", "3", "4", "1">>
IdC == <<"e", "f", "5", "6", "g", "h", "7", "8", "0">>
IdD == <<"9", "9", "0", "0", "a", "a", "b", "b", "0">>
IdE == <<"7", "7", "x", "x", "y", "y", "z", "z", "0">>

IdPool == {IdA, IdB, IdC, IdD, IdE}

\* the empty string of an id-valued field
NoId == <<>>

\* a prefix that no id of the pool starts with
PrefixZZ == <<"z", "z">>

\* blockData.OID[:8]
ShortId(id) == SubSeq(id, 1, ShortIdLen)

\* strings.HasPrefix
HasPrefix(id, prefix) ==
    /\ Len(prefix) <= Len(id)
    /\ SubSeq(id, 1, Len(prefix)) = prefix

(***************************************************************************)
(* Untyped tool input.  A payload is nil or a JSON object; a field of the  *)
(* object is absent, a JSON string or a JSON number; extra tells whether   *)
(* the object carries a field the input struct does not declare.           *)
(***************************************************************************)
Nil == [t |-> "nil"]
Absent == [t |-> "absent"]
JStr(s) == [t |-> "string", s |-> s]
JNum == [t |-> "number", n |-> 7]

\* json.Marshal followed by json.Unmarshal into a string field: an absent
\* field leaves the zero value, a string is copied, any other JSON type is an
\* unmarshal error.  Unknown fields are ignored (no DisallowUnknownFields).
IsStringOrAbsent(v) == v.t \in {"absent", "string"}
DecodeStr(v) == IF v.t = "string" THEN v.s ELSE ""
DecodeId(v) == IF v.t = "string" THEN v.s ELSE NoId

Ok(v) == [err |-> "", val |-> v]
Fail(e) == [err |-> e, val |-> Nil]

(***************************************************************************)
(* Input parsers                                                           *)
(***************************************************************************)
validTypes == {"term", "web", "preview", "cpuplot"}
validDirections == {"horizontal", "vertical"}
validPositions == {"before", "after"}

\* the decoded WidgetOpenToolInput struct
WidgetOpenToolInput(input) ==
    [WidgetType |-> DecodeStr(input.widget_type),
     Url |-> DecodeStr(input.url),
     File |-> DecodeStr(input.file),
     Connection |-> DecodeStr(input.connection),
     SplitDirection |-> DecodeStr(input.split_direction),
     TargetWidget |-> DecodeId(input.target_widget),
     Position |-> DecodeStr(input.position)]

OpenFieldsDecode(input) ==
    /\ IsStringOrAbsent(input.widget_type)
    /\ IsStringOrAbsent(input.url)
    /\ IsStringOrAbsent(input.file)
    /\ IsStringOrAbsent(input.connection)
    /\ IsStringOrAbsent(input.split_direction)
    /\ IsStringOrAbsent(input.target_widget)
    /\ IsStringOrAbsent(input.position)

\* mutant: split_direction is accepted without a target_widget
parseWidgetOpenInput_NoTargetCheck(input) ==
    IF input.t = "nil" THEN Fail("input is required")
    ELSE IF ~OpenFieldsDecode(input) THEN Fail("failed to unmarshal input")
    ELSE LET result == WidgetOpenToolInput(input) IN
         IF result.WidgetType = "" THEN Fail("widget_type is required")
         ELSE IF result.WidgetType \notin validTypes THEN Fail("invalid widget_type")
         ELSE IF result.WidgetType = "web" /\ result.Url = ""
              THEN Fail("url is required for web widget")
         ELSE IF result.SplitDirection # "" /\ result.SplitDirection \notin validDirections
              THEN Fail("invalid split_direction")
         ELSE IF result.Position # "" /\ result.Position \notin validPositions
              THEN Fail("invalid position")
         ELSE Ok(result)

\* mutant: a web widget is accepted without a url
parseWidgetOpenInput_NoUrlCheck(input) ==
    IF input.t = "nil" THEN Fail("input is required")
    ELSE IF ~OpenFieldsDecode(input) THEN Fail("failed to unmarshal input")
    ELSE LET result == WidgetOpenToolInput(input) IN
         IF result.WidgetType = "" THEN Fail("widget_type is required")
         ELSE IF result.WidgetType \notin validTypes THEN Fail("invalid widget_type")
         ELSE IF result.SplitDirection # "" /\ result.SplitDirection \notin validDirections
              THEN Fail("invalid split_direction")
         ELSE IF result.SplitDirection # "" /\ result.TargetWidget = NoId
              THEN Fail("target_widget is required when split_direction is specified")
         ELSE IF result.Position # "" /\ result.Position \notin validPositions
              THEN Fail("invalid position")
         ELSE Ok(result)

parseWidgetOpenInput(input) ==
    IF input.t = "nil" THEN Fail("input is required")
    ELSE IF ~OpenFieldsDecode(input) THEN Fail("failed to unmarshal input")
    ELSE LET result == WidgetOpenToolInput(input) IN
         IF result.WidgetType = "" THEN Fail("widget_type is required")
         ELSE IF result.WidgetType \notin validTypes THEN Fail("invalid widget_type")
         ELSE IF result.WidgetType = "web" /\ result.Url = ""
              THEN Fail("url is required for web widget")
         ELSE IF result.SplitDirection # "" /\ result.SplitDirection \notin validDirections
              THEN Fail("invalid split_direction")
         ELSE IF result.SplitDirection # "" /\ result.TargetWidget = NoId
              THEN Fail("target_widget is required when split_direction is specified")
         ELSE IF result.Position # "" /\ result.Position \notin validPositions
              THEN Fail("invalid position")
         ELSE Ok(result)

WidgetCloseToolInput(input) == [WidgetId |-> DecodeId(input.widget_id)]

parseWidgetCloseInput(input) ==
    IF input.t = "nil" THEN Fail("input is required")
    ELSE IF ~IsStringOrAbsent(input.widget_id) THEN Fail("failed to unmarshal input")
    ELSE LET result == WidgetCloseToolInput(input) IN
         IF result.WidgetId = NoId THEN Fail("widget_id is required")
         ELSE Ok(result)

WidgetRenameToolInput(input) ==
    [WidgetId |-> DecodeId(input.widget_id), Name |-> DecodeStr(input.name)]

\* mutant: the name may be empty
parseWidgetRenameInput_AllowEmptyName(input) ==
    IF input.t = "nil" THEN Fail("input is required")
    ELSE IF ~(IsStringOrAbsent(input.widget_id) /\ IsStringOrAbsent(input.name))
         THEN Fail("failed to unmarshal input")
    ELSE LET result == WidgetRenameToolInput(input) IN
         IF result.WidgetId = NoId THEN Fail("widget_id is required")
         ELSE Ok(result)

parseWidgetRenameInput(input) ==
    IF input.t = "nil" THEN Fail("input is required")
    ELSE IF ~(IsStringOrAbsent(input.widget_id) /\ IsStringOrAbsent(input.name))
         THEN Fail("failed to unmarshal input")
    ELSE LET result == WidgetRenameToolInput(input) IN
         IF result.WidgetId = NoId THEN Fail("widget_id is required")
         ELSE IF result.Name = "" THEN Fail("name is required")
         ELSE Ok(result)

WidgetMoveToolInput(input) ==
    [WidgetId |-> DecodeId(input.widget_id),
     TargetWidgetId |-> DecodeId(input.target_widget_id),
     Direction |-> DecodeStr(input.direction),
     Position |-> DecodeStr(input.position)]

MoveFieldsDecode(input) ==
    /\ IsStringOrAbsent(input.widget_id)
    /\ IsStringOrAbsent(input.target_widget_id)
    /\ IsStringOrAbsent(input.direction)
    /\ IsStringOrAbsent(input.position)

\* mutant: an absent direction defaults to horizontal
parseWidgetMoveInput_DefaultDirection(input) ==
    IF input.t = "nil" THEN Fail("input is required")
    ELSE IF ~MoveFieldsDecode(input) THEN Fail("failed to unmarshal input")
    ELSE LET result == WidgetMoveToolInput(input) IN
         IF result.WidgetId = NoId THEN Fail("widget_id is required")
         ELSE IF result.TargetWidgetId = NoId THEN Fail("target_widget_id is required")
         ELSE IF result.Direction = "" THEN Ok([result EXCEPT !.Direction = "horizontal"])
         ELSE IF result.Direction \notin validDirections THEN Fail("invalid direction")
         ELSE IF result.Position # "" /\ result.Position \notin validPositions
              THEN Fail("invalid position")
         ELSE Ok(result)

parseWidgetMoveInput(input) ==
    IF input.t = "nil" THEN Fail("input is required")
    ELSE IF ~MoveFieldsDecode(input) THEN Fail("failed to unmarshal input")
    ELSE LET result == WidgetMoveToolInput(input) IN
         IF result.WidgetId = NoId THEN Fail("widget_id is required")
         ELSE IF result.TargetWidgetId = NoId THEN Fail("target_widget_id is required")
         ELSE IF result.Direction = "" THEN Fail("direction is required")
         ELSE IF result.Direction \notin validDirections THEN Fail("invalid direction")
         ELSE IF result.Position # "" /\ result.Position \notin validPositions
              THEN Fail("invalid position")
         ELSE Ok(result)

\* the parser of the callback of each tool
ParseInput(kind, input) ==
    CASE kind = "open" -> parseWidgetOpenInput(input)
      [] kind = "close" -> parseWidgetCloseInput(input)
      [] kind = "rename" -> parseWidgetRenameInput(input)
      [] kind = "move" -> parseWidgetMoveInput(input)

(***************************************************************************)
(* Tool inputs the invocations are started with                            *)
(***************************************************************************)
\* "" stands for a field the payload leaves out
JField(s) == IF s = "" THEN Absent ELSE JStr(s)
JIdField(s) == IF s = NoId THEN Absent ELSE JStr(s)

OpenIn(wt, url, file, conn, sd, tw, pos) ==
    [t |-> "object", widget_type |-> JField(wt), url |-> JField(url),
     file |-> JField(file), connection |-> JField(conn),
     split_direction |-> JField(sd), target_widget |-> JIdField(tw),
     position |-> JField(pos), extra |-> FALSE]

CloseIn(id) == [t |-> "object", widget_id |-> JIdField(id), extra |-> FALSE]

RenameIn(id, name) ==
    [t |-> "object", widget_id |-> JIdField(id), name |-> JField(name), extra |-> FALSE]

MoveIn(id, target, dir, pos) ==
    [t |-> "object", widget_id |-> JIdField(id), target_widget_id |-> JIdField(target),
     direction |-> JField(dir), position |-> JField(pos), extra |-> FALSE]

OpenInputs ==
    {\* valid, no split_direction
     OpenIn("term", "", "", "", "", NoId, ""),
     OpenIn("web", "https://x", "", "", "", NoId, ""),
     OpenIn("preview", "", "/f", "", "", ShortId(IdC), "before"),
     \* valid, with fields the widget type has no use for
     OpenIn("term", "https://x", "", "local", "", NoId, ""),
     OpenIn("cpuplot", "", "/f", "remote", "", NoId, ""),
     OpenIn("preview", "https://x", "", "remote", "", NoId, ""),
     \* valid, with split_direction
     OpenIn("term", "", "", "remote", "horizontal", ShortId(IdC), ""),
     OpenIn("web", "https://x", "", "", "vertical", ShortId(IdA), "before"),
     OpenIn("cpuplot", "", "", "", "vertical", PrefixZZ, ""),
     \* rejected by the parser
     Nil,
     OpenIn("", "", "", "", "", NoId, ""),
     OpenIn("editor", "", "", "", "", NoId, ""),
     OpenIn("web", "", "", "", "", NoId, ""),
     OpenIn("term", "", "", "", "horizontal", NoId, ""),
     OpenIn("term", "", "", "", "diagonal", ShortId(IdA), ""),
     OpenIn("term", "", "", "", "", NoId, "middle"),
     \* rejected by the parser, and more than one rule is broken
     OpenIn("term", "", "", "", "diagonal", NoId, ""),
     OpenIn("editor", "", "", "", "horizontal", NoId, ""),
     OpenIn("web", "", "", "", "vertical", NoId, ""),
     OpenIn("web", "", "", "", "horizontal", ShortId(IdC), ""),
     OpenIn("web", "", "", "", "", NoId, "middle"),
     OpenIn("term", "", "", "", "horizontal", NoId, "middle"),
     \* a field given as the empty string
     [OpenIn("web", "", "", "", "", NoId, "") EXCEPT !.url = JStr("")],
     [OpenIn("term", "", "", "", "vertical", NoId, "") EXCEPT !.target_widget = JStr(NoId)],
     [OpenIn("term", "", "", "", "", NoId, "") EXCEPT !.url = JNum],
     \* an undeclared field is ignored by the decoder
     [OpenIn("web", "https://x", "", "", "", NoId, "") EXCEPT !.extra = TRUE]}

\* a widget id with a line feed in it
PrefixLF == <<"z", "\n", "z">>

\* the short ids of the two blocks of tab1, of the block of tab2, of a block
\* an open may create, and two prefixes of no block
IdInputs == {ShortId(IdA), ShortId(IdC), ShortId(IdD), ShortId(IdE), PrefixZZ, PrefixLF}

CloseInputs ==
    {CloseIn(id) : id \in IdInputs}
        \cup {Nil, CloseIn(NoId), [CloseIn(NoId) EXCEPT !.widget_id = JNum]}

RenameInputs ==
    {RenameIn(ShortId(IdC), "n1"), RenameIn(ShortId(IdC), "n2"),
     RenameIn(ShortId(IdA), "n1"), RenameIn(PrefixZZ, "n1"),
     Nil, RenameIn(NoId, ""), RenameIn(ShortId(IdC), ""), RenameIn(NoId, "n1"),
     [RenameIn(ShortId(IdC), "") EXCEPT !.name = JNum]}

MoveInputs ==
    {MoveIn(ShortId(IdC), ShortId(IdA), "horizontal", ""),
     MoveIn(ShortId(IdA), ShortId(IdC), "vertical", "before"),
     MoveIn(ShortId(IdE), ShortId(IdC), "vertical", ""),
     MoveIn(ShortId(IdC), ShortId(IdC), "vertical", ""),
     MoveIn(ShortId(IdC), PrefixZZ, "horizontal", "after"),
     Nil,
     MoveIn(NoId, NoId, "", ""),
     MoveIn(NoId, ShortId(IdC), "vertical", ""),
     MoveIn(ShortId(IdC), NoId, "vertical", ""),
     MoveIn(ShortId(IdC), ShortId(IdA), "", ""),
     MoveIn(ShortId(IdC), ShortId(IdA), "diagonal", ""),
     MoveIn(ShortId(IdC), ShortId(IdA), "vertical", "middle"),
     [MoveIn(ShortId(IdC), ShortId(IdA), "vertical", "") EXCEPT !.position = JNum]}

Inputs(kind) ==
    CASE kind = "open" -> OpenInputs
      [] kind = "close" -> CloseInputs
      [] kind = "rename" -> RenameInputs
      [] kind = "move" -> MoveInputs

Kinds == {"open", "close", "rename", "move"}

(***************************************************************************)
(* ToolCallDesc: the description of a tool call.  A description is the     *)
(* format string of its fmt.Sprintf with the arguments it prints as they   *)
(* are (%s, %v: ids and strs) and the arguments it prints quoted and       *)
(* escaped (%q).                                                           *)
(***************************************************************************)
Desc(text, ids, strs, quoted) ==
    [text |-> text, ids |-> ids, strs |-> strs, quoted |-> quoted]

NoDesc == Desc("", <<>>, <<>>, <<>>)

ErrorDesc(err) == Desc("error parsing input: %v", <<>>, <<err>>, <<>>)

OpenCallDesc(input) ==
    LET r == parseWidgetOpenInput(input)
        parsed == r.val IN
    IF r.err # "" THEN ErrorDesc(r.err)
    ELSE CASE parsed.WidgetType = "web" ->
                  Desc("opening web widget with URL %q", <<>>, <<>>, <<parsed.Url>>)
           [] parsed.WidgetType = "preview" ->
                  IF parsed.File # ""
                  THEN Desc("opening preview widget for %q", <<>>, <<>>, <<parsed.File>>)
                  ELSE Desc("opening preview widget", <<>>, <<>>, <<>>)
           [] parsed.WidgetType = "term" ->
                  IF parsed.Connection # ""
                  THEN Desc("opening terminal connected to %q", <<>>, <<>>,
                            <<parsed.Connection>>)
                  ELSE Desc("opening terminal widget", <<>>, <<>>, <<>>)
           [] parsed.WidgetType = "cpuplot" ->
                  Desc("opening CPU graph widget", <<>>, <<>>, <<>>)
           [] OTHER -> Desc("opening %s widget", <<>>, <<parsed.WidgetType>>, <<>>)

CloseCallDesc(input) ==
    LET r == parseWidgetCloseInput(input) IN
    IF r.err # "" THEN ErrorDesc(r.err)
    ELSE Desc("closing widget %s", <<r.val.WidgetId>>, <<>>, <<>>)

RenameCallDesc(input) ==
    LET r == parseWidgetRenameInput(input) IN
    IF r.err # "" THEN ErrorDesc(r.err)
    ELSE Desc("renaming widget %s to %q", <<r.val.WidgetId>>, <<>>, <<r.val.Name>>)

MoveCallDesc(input) ==
    LET r == parseWidgetMoveInput(input)
        pos == IF r.val.Position = "" THEN "after" ELSE r.val.Position IN
    IF r.err # "" THEN ErrorDesc(r.err)
    ELSE Desc("moving widget %s %s %s of widget %s",
              <<r.val.WidgetId, r.val.TargetWidgetId>>, <<pos, r.val.Direction>>, <<>>)

ToolCallDesc(kind, input) ==
    CASE kind = "open" -> OpenCallDesc(input)
      [] kind = "close" -> CloseCallDesc(input)
      [] kind = "rename" -> RenameCallDesc(input)
      [] kind = "move" -> MoveCallDesc(input)

(***************************************************************************)
(* State                                                                   *)
(***************************************************************************)
VARIABLES
    blocks,          \* the block store: live block id -> [tab, meta]
    usedIds,         \* block ids handed out so far (an id is never reused)
    layoutQueue,     \* per tab, the layout actions queued and not yet applied
    layoutSeen,      \* per tab, the layout actions the layout tree has applied
    queuedLog,       \* per tab, every layout action ever queued, in queueing order
    controllers,     \* blocks whose controller was started by ResyncController
    pc,              \* per invocation, the position in its callback
    cmd,             \* per invocation, the tool call it runs: tool, tab, input,
                     \* and the description made of it
    loc,             \* per invocation, the callback's local variables
    calls,           \* per invocation, the collaborator calls made so far
    updates,         \* per invocation, the updates collected in its context
    sent,            \* per invocation, what it handed to the update broker
    ret,             \* per invocation, the callback's return values
    queued,          \* per invocation, the layout actions it has queued
    cmdCount,        \* number of invocations started
    modalOpen,       \* whether the RenameWidgetModal is on the modal stack
    props,           \* the modal's props: blockOid, currentName
    newName,         \* the modal's state: the text of its input,
    error,           \*   the error message it shows,
    isRenaming,      \*   and whether a rename is in progress
    inFlight,        \* the SetMetaCommand requests the modal is awaiting
    rpcLog           \* every SetMetaCommand request the modal has issued

modal == <<modalOpen, props, newName, error, isRenaming, inFlight, rpcLog>>

\* the state of the tools other than the block store
tools == <<usedIds, layoutQueue, layoutSeen, queuedLog, controllers, pc, cmd, loc, calls,
           updates, sent, ret, queued, cmdCount>>

vars == <<blocks, usedIds, layoutQueue, layoutSeen, queuedLog, controllers, pc, cmd,
          loc, calls, updates, sent, ret, queued, cmdCount, modal>>

store == <<blocks, usedIds>>
layout == <<layoutQueue, layoutSeen, queuedLog>>
queues == <<layout, queued>>

NoCmd == [kind |-> "none", tab |-> "", input |-> Nil, desc |-> NoDesc]
NoMeta == [view |-> ""]
NoLoc == [parsed |-> Nil, blockId |-> NoId, blockMeta |-> NoMeta, targetBlockId |-> NoId]
NoErr == [msg |-> "", cause |-> ""]
NoRet == [err |-> NoErr, result |-> Nil]
NoProps == [blockOid |-> NoId, currentName |-> <<>>]

\* what makes a collaborator call fail: an error of the store, or the
\* deadline of the invocation's context (context.WithTimeout, 5 s)
Causes == {"DependentStoreFailure", "Timeout"}

LayoutActionDataType_Insert == "insert"
LayoutActionDataType_Remove == "delete"
LayoutActionDataType_SplitHorizontal == "splithorizontal"
LayoutActionDataType_SplitVertical == "splitvertical"
LayoutActionDataType_MoveHorizontal == "movehorizontal"
LayoutActionDataType_MoveVertical == "movevertical"

InitBlocks ==
    (IdA :> [tab |-> "tab1", meta |-> [view |-> "term", controller |-> "shell"]])
    @@ (IdC :> [tab |-> "tab1", meta |-> [view |-> "web", url |-> "https://x"]])
    @@ (IdD :> [tab |-> "tab2", meta |-> [view |-> "preview"]])

\* no tool call is running
IdleTools ==
    /\ usedIds = {IdA, IdC, IdD}
    /\ layoutQueue = [t \in Tabs |-> <<>>]
    /\ layoutSeen = [t \in Tabs |-> <<>>]
    /\ queuedLog = [t \in Tabs |-> <<>>]
    /\ controllers = {IdA}
    /\ pc = [p \in Procs |-> "idle"]
    /\ cmd = [p \in Procs |-> NoCmd]
    /\ loc = [p \in Procs |-> NoLoc]
    /\ calls = [p \in Procs |-> <<>>]
    /\ updates = [p \in Procs |-> <<>>]
    /\ sent = [p \in Procs |-> <<>>]
    /\ ret = [p \in Procs |-> NoRet]
    /\ queued = [p \in Procs |-> <<>>]
    /\ cmdCount = 0

Init ==
    /\ blocks = InitBlocks
    /\ IdleTools
    /\ modalOpen = FALSE
    /\ props = NoProps
    /\ newName = <<>>
    /\ error = ""
    /\ isRenaming = FALSE
    /\ inFlight = <<>>
    /\ rpcLog = <<>>

(***************************************************************************)
(* Collaborators (pkg/wcore, pkg/wstore, pkg/blockcontroller, pkg/wps)     *)
(***************************************************************************)
\* the ids of the blocks of a tab
TabBlockIds(tab) == {id \in DOMAIN blocks : blocks[id].tab = tab}

\* the live block ids of the tab that start with the prefix
PrefixMatches(tab, prefix) == {id \in TabBlockIds(tab) : HasPrefix(id, prefix)}

\* mutant: several matches are reported as an error of their own
ResolveBlockIdFromPrefix_Ambiguous(tab, prefix) ==
    LET matches == PrefixMatches(tab, prefix) IN
    IF Cardinality(matches) = 1
    THEN [ok |-> TRUE, id |-> CHOOSE id \in matches : TRUE, err |-> ""]
    ELSE IF matches = {}
    THEN [ok |-> FALSE, id |-> NoId, err |-> "UnresolvedIdentifier"]
    ELSE [ok |-> FALSE, id |-> NoId, err |-> "AmbiguousIdentifier"]

\* wcore.ResolveBlockIdFromPrefix: the one live block id of the tab that
\* starts with the prefix; no match and several matches are the same error
ResolveBlockIdFromPrefix(tab, prefix) ==
    LET matches == PrefixMatches(tab, prefix) IN
    IF Cardinality(matches) = 1
    THEN [ok |-> TRUE, id |-> CHOOSE id \in matches : TRUE, err |-> ""]
    ELSE [ok |-> FALSE, id |-> NoId, err |-> "UnresolvedIdentifier"]

\* wcore.CreateBlock: a new block of the tab under a fresh id
CreateBlock(tab, id, meta) == (id :> [tab |-> tab, meta |-> meta]) @@ blocks

\* wcore.DeleteBlock
DeleteBlock(id) == [i \in DOMAIN blocks \ {id} |-> blocks[i]]

\* wstore.UpdateObjectMeta with mergeSpecial = true: the given keys are set,
\* the other keys of the block's meta stay
UpdateObjectMeta(id, meta) ==
    [blocks EXCEPT ![id].meta = meta @@ blocks[id].meta]

\* mutant: the action goes to the front of the tab's queue
QueueLayoutActionForTab_Front(queue, tab, layoutAction) ==
    [queue EXCEPT ![tab] = <<layoutAction>> \o @]

\* wcore.QueueLayoutActionForTab: the action goes to the end of the tab's queue
QueueLayoutActionForTab(queue, tab, layoutAction) ==
    [queue EXCEPT ![tab] = Append(@, layoutAction)]

(***************************************************************************)
(* The statements of the callbacks, in source order.  A callback runs its  *)
(* steps one after the other and returns at the first error.               *)
(***************************************************************************)
\* mutant: the split branch is taken whenever a target is given
OpenWantsSplit_TargetOnly(parsed) == parsed.TargetWidget # NoId

\* the branch on split_direction
OpenWantsSplit(parsed) == parsed.SplitDirection # "" /\ parsed.TargetWidget # NoId

\* mutant: the controller is started right after the block is created
OpenSteps_ResyncFirst(parsed) ==
    <<"open_create", "open_resync">>
        \o (IF parsed.SplitDirection # "" /\ parsed.TargetWidget # NoId
            THEN <<"open_resolve">> ELSE <<>>)
        \o <<"open_queue", "open_send">>

OpenSteps(parsed) ==
    <<"open_create">>
        \o (IF OpenWantsSplit(parsed) THEN <<"open_resolve">> ELSE <<>>)
        \o <<"open_queue">>
        \o (IF parsed.WidgetType = "term" THEN <<"open_resync">> ELSE <<>>)
        \o <<"open_send">>

\* mutant: the block is deleted before its Remove action is queued
CloseSteps_DeleteFirst == <<"close_resolve", "close_delete", "close_queue", "close_send">>

CloseSteps == <<"close_resolve", "close_queue", "close_delete", "close_send">>

\* mutant: the object update is sent before the meta is written
RenameSteps_NotifyFirst ==
    <<"rename_resolve", "rename_objupdate", "rename_update", "rename_send">>

RenameSteps == <<"rename_resolve", "rename_update", "rename_objupdate", "rename_send">>

MoveSteps == <<"move_resolve", "move_resolve_target", "move_queue", "move_send">>

Steps(kind, parsed) ==
    CASE kind = "open" -> OpenSteps(parsed)
      [] kind = "close" -> CloseSteps
      [] kind = "rename" -> RenameSteps
      [] kind = "move" -> MoveSteps

\* the statement after a statement that did not fail; "done" after the last
After(steps, label) ==
    LET i == CHOOSE i \in 1..Len(steps) : steps[i] = label IN
    IF i = Len(steps) THEN "done" ELSE steps[i + 1]

\* mutant: widget_close goes on after a parse error
StartLabel_CloseIgnoresErr(kind, parsed) ==
    IF parsed.err # "" /\ kind # "close" THEN "done"
    ELSE IF kind = "close" THEN "close_resolve"
    ELSE IF kind = "rename" THEN "rename_resolve"
    ELSE IF kind = "move" THEN "move_resolve"
    ELSE "open_create"

\* if err != nil { return nil, err } after the parse
StartLabel(kind, parsed) ==
    IF parsed.err # "" THEN "done" ELSE Steps(kind, parsed.val)[1]

\* A return value is taken by the caller at once (Finish): it is local to the
\* invocation, so no step of another invocation is placed between a return
\* and its Finish.
NoneDone == \A q \in Procs : pc[q] # "done"

\* the invocation is at a statement
At(p, label) == pc[p] = label /\ NoneDone

\* the step of a callback: record the call, then go on or return
Call(p, fn, ok, arg) ==
    calls' = [calls EXCEPT ![p] = Append(@, [fn |-> fn, ok |-> ok, arg |-> arg])]

Goto(p, label) ==
    /\ pc' = [pc EXCEPT ![p] = label]
    /\ UNCHANGED ret

Return(p, err, result) ==
    /\ pc' = [pc EXCEPT ![p] = "done"]
    /\ ret' = [ret EXCEPT ![p] = [err |-> err, result |-> result]]

\* the call succeeded: the next statement, or return result, nil
Advance(p, result) ==
    LET next == After(Steps(cmd[p].kind, loc[p].parsed), pc[p]) IN
    IF next = "done" THEN Return(p, NoErr, result) ELSE Goto(p, next)

Collect(p, update) == updates' = [updates EXCEPT ![p] = Append(@, update)]

\* a call that takes the context fails: return nil, fmt.Errorf(msg + ": %w", err)
CallFails(p, fn, arg, msg) ==
    \E cause \in Causes :
        /\ Call(p, fn, FALSE, arg)
        /\ Return(p, [msg |-> msg, cause |-> cause], Nil)

\* the call fails because the store does not hold what it names
CallRejected(p, fn, arg, msg, cause) ==
    /\ Call(p, fn, FALSE, arg)
    /\ Return(p, [msg |-> msg, cause |-> cause], Nil)

\* wcore.QueueLayoutActionForTab succeeds
Queued(p, action) ==
    /\ layoutQueue' = QueueLayoutActionForTab(layoutQueue, cmd[p].tab, action)
    /\ queuedLog' = [queuedLog EXCEPT ![cmd[p].tab] = Append(@, action)]
    /\ queued' = [queued EXCEPT ![p] = Append(@, action)]
    /\ UNCHANGED layoutSeen
    /\ Call(p, "QueueLayoutActionForTab", TRUE, action.BlockId)
    /\ Collect(p, [op |-> "layout", id |-> action.BlockId])

\* waveobj.ContextGetUpdatesRtn and wps.Broker.SendUpdateEvents
SendUpdateEvents(p) ==
    /\ sent' = [sent EXCEPT ![p] = Append(@, [fn |-> "SendUpdateEvents", updates |-> updates[p]])]
    /\ Call(p, "SendUpdateEvents", TRUE, NoId)

(***************************************************************************)
(* An invocation starts: the callback parses its input                    *)
(***************************************************************************)
\* an open needs a fresh block id for its CreateBlock
FreshIdLeft ==
    Cardinality(IdPool \ usedIds) > Cardinality({q \in Procs : pc[q] = "open_create"})

\* a new invocation takes the lowest free slot
Start(p) ==
    /\ At(p, "idle")
    /\ \A q \in Procs : q < p => pc[q] # "idle"
    /\ cmdCount < MaxCmds
    /\ \E kind \in Kinds :
         /\ kind = "open" => FreshIdLeft
         /\ \E input \in Inputs(kind) :
              LET parsed == ParseInput(kind, input)
                  label == StartLabel(kind, parsed) IN
              /\ cmdCount' = cmdCount + 1
              /\ cmd' = [cmd EXCEPT ![p] = [kind |-> kind, tab |-> TabOf(p), input |-> input,
                                            desc |-> NoDesc]]
              /\ calls' = [calls EXCEPT ![p] = <<>>]
              /\ updates' = [updates EXCEPT ![p] = <<>>]
              /\ sent' = [sent EXCEPT ![p] = <<>>]
              /\ loc' = [loc EXCEPT ![p] = [NoLoc EXCEPT !.parsed = parsed.val]]
              /\ ret' = [ret EXCEPT ![p] = [err |-> [msg |-> parsed.err, cause |-> ""],
                                            result |-> Nil]]
              /\ pc' = [pc EXCEPT ![p] = label]
              /\ queued' = [queued EXCEPT ![p] = <<>>]
    /\ UNCHANGED <<store, layout, controllers>>
    /\ UNCHANGED modal

\* the caller asks for the description of the tool call it has run
\* (ToolCallDesc gets the input and the output, and reads the input only)
Describe(p) ==
    /\ pc[p] = "done"
    /\ cmd[p].desc = NoDesc
    /\ cmd' = [cmd EXCEPT ![p].desc = ToolCallDesc(cmd[p].kind, cmd[p].input)]
    /\ UNCHANGED <<store, queues, controllers, pc, loc, calls, updates, sent, ret, cmdCount>>
    /\ UNCHANGED modal

\* the caller takes the return values; the slot is free for the next call
Finish(p) ==
    /\ pc[p] = "done"
    /\ pc' = [pc EXCEPT ![p] = "idle"]
    /\ cmd' = [cmd EXCEPT ![p] = NoCmd]
    /\ loc' = [loc EXCEPT ![p] = NoLoc]
    /\ calls' = [calls EXCEPT ![p] = <<>>]
    /\ updates' = [updates EXCEPT ![p] = <<>>]
    /\ sent' = [sent EXCEPT ![p] = <<>>]
    /\ ret' = [ret EXCEPT ![p] = NoRet]
    /\ queued' = [queued EXCEPT ![p] = <<>>]
    /\ UNCHANGED <<store, layout, controllers, cmdCount>>
    /\ UNCHANGED modal

(***************************************************************************)
(* widget_open                                                             *)
(***************************************************************************)
\* mutant: a terminal gets its connection whenever one is given
OpenMeta_ConnectionAlways(parsed) ==
    LET meta == [view |-> parsed.WidgetType] IN
    CASE parsed.WidgetType = "web" -> [url |-> parsed.Url] @@ meta
      [] parsed.WidgetType = "preview" ->
            IF parsed.File # "" THEN [file |-> parsed.File] @@ meta ELSE meta
      [] parsed.WidgetType = "term" ->
            IF parsed.Connection # ""
            THEN [connection |-> parsed.Connection] @@ [controller |-> "shell"] @@ meta
            ELSE [controller |-> "shell"] @@ meta
      [] parsed.WidgetType = "cpuplot" ->
            IF parsed.Connection # "" THEN [connection |-> parsed.Connection] @@ meta ELSE meta
      [] OTHER -> meta

\* the meta map of the block definition
OpenMeta(parsed) ==
    LET meta == [view |-> parsed.WidgetType] IN
    CASE parsed.WidgetType = "web" -> [url |-> parsed.Url] @@ meta
      [] parsed.WidgetType = "preview" ->
            IF parsed.File # "" THEN [file |-> parsed.File] @@ meta ELSE meta
      [] parsed.WidgetType = "term" ->
            IF parsed.Connection # "" /\ parsed.Connection # "local"
            THEN [connection |-> parsed.Connection] @@ [controller |-> "shell"] @@ meta
            ELSE [controller |-> "shell"] @@ meta
      [] parsed.WidgetType = "cpuplot" ->
            IF parsed.Connection # "" THEN [connection |-> parsed.Connection] @@ meta ELSE meta
      [] OTHER -> meta

OpenInsertAction(blockId) ==
    [ActionType |-> LayoutActionDataType_Insert, BlockId |-> blockId,
     TargetBlockId |-> NoId, Position |-> "", Focused |-> TRUE]

\* mutant: the position is passed on as given, without the default
OpenSplitAction_NoDefault(parsed, blockId, targetBlockId) ==
    [ActionType |-> IF parsed.SplitDirection = "vertical"
                    THEN LayoutActionDataType_SplitVertical
                    ELSE LayoutActionDataType_SplitHorizontal,
     BlockId |-> blockId,
     TargetBlockId |-> targetBlockId,
     Position |-> parsed.Position,
     Focused |-> TRUE]

OpenSplitAction(parsed, blockId, targetBlockId) ==
    [ActionType |-> IF parsed.SplitDirection = "vertical"
                    THEN LayoutActionDataType_SplitVertical
                    ELSE LayoutActionDataType_SplitHorizontal,
     BlockId |-> blockId,
     TargetBlockId |-> targetBlockId,
     Position |-> IF parsed.Position = "" THEN "after" ELSE parsed.Position,
     Focused |-> TRUE]

\* var layoutAction, built from split_direction
OpenLayoutAction(parsed, blockId, targetBlockId) ==
    IF OpenWantsSplit(parsed)
    THEN OpenSplitAction(parsed, blockId, targetBlockId)
    ELSE OpenInsertAction(blockId)

\* mutant: full_id is cut like widget_id
OpenResult_ShortOnly(blockId) ==
    [success |-> TRUE, widget_id |-> ShortId(blockId), full_id |-> ShortId(blockId)]

\* the result map of a successful open
OpenResult(blockId) == [success |-> TRUE, widget_id |-> ShortId(blockId), full_id |-> blockId]

\* wcore.CreateBlock
OpenCreate(p) ==
    /\ At(p, "open_create")
    /\ \/ /\ CallFails(p, "CreateBlock", NoId, "failed to create widget")
          /\ UNCHANGED <<store, loc, updates>>
       \/ \E id \in IdPool \ usedIds :
            /\ blocks' = CreateBlock(cmd[p].tab, id, OpenMeta(loc[p].parsed))
            /\ usedIds' = usedIds \cup {id}
            /\ Call(p, "CreateBlock", TRUE, id)
            /\ Collect(p, [op |-> "create", id |-> id])
            /\ loc' = [loc EXCEPT ![p].blockId = id,
                                  ![p].blockMeta = OpenMeta(loc[p].parsed)]
            /\ Advance(p, OpenResult(id))
    /\ UNCHANGED <<queues, controllers, cmd, sent, cmdCount>>
    /\ UNCHANGED modal

\* wcore.ResolveBlockIdFromPrefix for the split target
OpenResolve(p) ==
    /\ At(p, "open_resolve")
    /\ LET prefix == loc[p].parsed.TargetWidget
           r == ResolveBlockIdFromPrefix(cmd[p].tab, prefix) IN
       \/ /\ CallFails(p, "ResolveBlockIdFromPrefix", prefix, "failed to find target widget")
          /\ UNCHANGED loc
       \/ /\ ~r.ok
          /\ CallRejected(p, "ResolveBlockIdFromPrefix", prefix,
                          "failed to find target widget", r.err)
          /\ UNCHANGED loc
       \/ /\ r.ok
          /\ Call(p, "ResolveBlockIdFromPrefix", TRUE, prefix)
          /\ loc' = [loc EXCEPT ![p].targetBlockId = r.id]
          /\ Advance(p, OpenResult(loc[p].blockId))
    /\ UNCHANGED <<store, queues, controllers, cmd, updates, sent, cmdCount>>
    /\ UNCHANGED modal

\* wcore.QueueLayoutActionForTab
OpenQueue(p) ==
    /\ At(p, "open_queue")
    /\ LET layoutAction ==
               OpenLayoutAction(loc[p].parsed, loc[p].blockId, loc[p].targetBlockId) IN
       \/ /\ CallFails(p, "QueueLayoutActionForTab", layoutAction.BlockId,
                       "failed to add widget to layout")
          /\ UNCHANGED <<layout, updates, queued>>
       \/ /\ Queued(p, layoutAction)
          /\ Advance(p, OpenResult(loc[p].blockId))
    /\ UNCHANGED <<store, controllers, cmd, loc, sent, cmdCount>>
    /\ UNCHANGED modal

\* mutant: when the controller does not start, the block is deleted again
OpenResync_Rollback(p) ==
    /\ At(p, "open_resync")
    /\ \/ /\ CallFails(p, "ResyncController", loc[p].blockId,
                       "failed to start terminal controller")
          /\ blocks' = [i \in DOMAIN blocks \ {loc[p].blockId} |-> blocks[i]]
          /\ UNCHANGED controllers
       \/ /\ loc[p].blockId \in DOMAIN blocks
          /\ controllers' = controllers \cup {loc[p].blockId}
          /\ Call(p, "ResyncController", TRUE, loc[p].blockId)
          /\ Advance(p, OpenResult(loc[p].blockId))
          /\ UNCHANGED blocks
    /\ UNCHANGED <<usedIds, queues, cmd, loc, updates, sent, cmdCount>>
    /\ UNCHANGED modal

\* blockcontroller.ResyncController, for a terminal only
OpenResync(p) ==
    /\ At(p, "open_resync")
    /\ \/ /\ CallFails(p, "ResyncController", loc[p].blockId,
                       "failed to start terminal controller")
          /\ UNCHANGED controllers
       \/ /\ loc[p].blockId \notin DOMAIN blocks
          /\ CallRejected(p, "ResyncController", loc[p].blockId,
                          "failed to start terminal controller", "DependentStoreFailure")
          /\ UNCHANGED controllers
       \/ /\ loc[p].blockId \in DOMAIN blocks
          /\ controllers' = controllers \cup {loc[p].blockId}
          /\ Call(p, "ResyncController", TRUE, loc[p].blockId)
          /\ Advance(p, OpenResult(loc[p].blockId))
    /\ UNCHANGED <<store, queues, cmd, loc, updates, sent, cmdCount>>
    /\ UNCHANGED modal

OpenSend(p) ==
    /\ At(p, "open_send")
    /\ SendUpdateEvents(p)
    /\ Advance(p, OpenResult(loc[p].blockId))
    /\ UNCHANGED <<store, queues, controllers, cmd, loc, updates, cmdCount>>
    /\ UNCHANGED modal

(***************************************************************************)
(* widget_close                                                            *)
(***************************************************************************)
CloseRemoveAction(blockId) ==
    [ActionType |-> LayoutActionDataType_Remove, BlockId |-> blockId,
     TargetBlockId |-> NoId, Position |-> "", Focused |-> FALSE]

CloseResult == [success |-> TRUE, message |-> "closed"]

\* mutant: the error of the resolution is dropped
CloseResolve_IgnoreErr(p) ==
    /\ At(p, "close_resolve")
    /\ LET prefix == loc[p].parsed.WidgetId
           r == ResolveBlockIdFromPrefix(cmd[p].tab, prefix) IN
       /\ Call(p, "ResolveBlockIdFromPrefix", r.ok, prefix)
       /\ loc' = [loc EXCEPT ![p].blockId = r.id]
       /\ Advance(p, CloseResult)
    /\ UNCHANGED <<store, queues, controllers, cmd, updates, sent, cmdCount>>
    /\ UNCHANGED modal

\* mutant: the resolution takes no deadline and waits until the prefix names
\* one block of the tab
CloseResolve_NoDeadline(p) ==
    /\ At(p, "close_resolve")
    /\ LET prefix == loc[p].parsed.WidgetId
           r == ResolveBlockIdFromPrefix(cmd[p].tab, prefix) IN
       /\ r.ok
       /\ Call(p, "ResolveBlockIdFromPrefix", TRUE, prefix)
       /\ loc' = [loc EXCEPT ![p].blockId = r.id]
       /\ Advance(p, CloseResult)
    /\ UNCHANGED <<store, queues, controllers, cmd, updates, sent, cmdCount>>
    /\ UNCHANGED modal

\* wcore.ResolveBlockIdFromPrefix, if err != nil { return nil, ... }
CloseResolve(p) ==
    /\ At(p, "close_resolve")
    /\ LET prefix == loc[p].parsed.WidgetId
           r == ResolveBlockIdFromPrefix(cmd[p].tab, prefix) IN
       \/ /\ CallFails(p, "ResolveBlockIdFromPrefix", prefix, "failed to find widget with ID")
          /\ UNCHANGED loc
       \/ /\ ~r.ok
          /\ CallRejected(p, "ResolveBlockIdFromPrefix", prefix,
                          "failed to find widget with ID", r.err)
          /\ UNCHANGED loc
       \/ /\ r.ok
          /\ Call(p, "ResolveBlockIdFromPrefix", TRUE, prefix)
          /\ loc' = [loc EXCEPT ![p].blockId = r.id]
          /\ Advance(p, CloseResult)
    /\ UNCHANGED <<store, queues, controllers, cmd, updates, sent, cmdCount>>
    /\ UNCHANGED modal

\* mutant: a failed queue call is made a second time
CloseQueue_RetryOnce(p) ==
    /\ At(p, "close_queue")
    /\ \/ /\ \A i \in 1..Len(calls[p]) : calls[p][i].fn # "QueueLayoutActionForTab"
          /\ Call(p, "QueueLayoutActionForTab", FALSE, loc[p].blockId)
          /\ UNCHANGED <<pc, ret, layout, updates, queued>>
       \/ /\ \E i \in 1..Len(calls[p]) : calls[p][i].fn = "QueueLayoutActionForTab"
          /\ CallFails(p, "QueueLayoutActionForTab", loc[p].blockId,
                       "failed to queue layout action")
          /\ UNCHANGED <<layout, updates, queued>>
       \/ /\ Queued(p, CloseRemoveAction(loc[p].blockId))
          /\ Advance(p, CloseResult)
    /\ UNCHANGED <<store, controllers, cmd, loc, sent, cmdCount>>
    /\ UNCHANGED modal

\* wcore.QueueLayoutActionForTab with the Remove action
CloseQueue(p) ==
    /\ At(p, "close_queue")
    /\ \/ /\ CallFails(p, "QueueLayoutActionForTab", loc[p].blockId,
                       "failed to queue layout action")
          /\ UNCHANGED <<layout, updates, queued>>
       \/ /\ Queued(p, CloseRemoveAction(loc[p].blockId))
          /\ Advance(p, CloseResult)
    /\ UNCHANGED <<store, controllers, cmd, loc, sent, cmdCount>>
    /\ UNCHANGED modal

\* wcore.DeleteBlock, if err != nil { return nil, ... }
CloseDelete(p) ==
    /\ At(p, "close_delete")
    /\ \/ /\ CallFails(p, "DeleteBlock", loc[p].blockId, "failed to close widget")
          /\ UNCHANGED <<blocks, updates>>
       \/ /\ loc[p].blockId \notin DOMAIN blocks
          /\ CallRejected(p, "DeleteBlock", loc[p].blockId,
                          "failed to close widget", "DependentStoreFailure")
          /\ UNCHANGED <<blocks, updates>>
       \/ /\ loc[p].blockId \in DOMAIN blocks
          /\ blocks' = DeleteBlock(loc[p].blockId)
          /\ Call(p, "DeleteBlock", TRUE, loc[p].blockId)
          /\ Collect(p, [op |-> "delete", id |-> loc[p].blockId])
          /\ Advance(p, CloseResult)
    /\ UNCHANGED <<usedIds, queues, controllers, cmd, loc, sent, cmdCount>>
    /\ UNCHANGED modal

CloseSend(p) ==
    /\ At(p, "close_send")
    /\ SendUpdateEvents(p)
    /\ Advance(p, CloseResult)
    /\ UNCHANGED <<store, queues, controllers, cmd, loc, updates, cmdCount>>
    /\ UNCHANGED modal

(***************************************************************************)
(* widget_rename                                                           *)
(***************************************************************************)
\* mutant: the meta map also carries the view key
RenameMeta_WithView(parsed) == ("display:name" :> parsed.Name) @@ [view |-> ""]

\* mutant: renaming a widget to the name a widget already shows clears it
RenameMeta_Toggle(parsed) ==
    "display:name" :>
        (IF \E id \in DOMAIN blocks :
                /\ "display:name" \in DOMAIN blocks[id].meta
                /\ blocks[id].meta["display:name"] = parsed.Name
         THEN "" ELSE parsed.Name)

\* meta := map[string]any{"display:name": parsed.Name}
RenameMeta(parsed) == "display:name" :> parsed.Name

RenameResult == [success |-> TRUE, message |-> "renamed"]

RenameResolve(p) ==
    /\ At(p, "rename_resolve")
    /\ LET prefix == loc[p].parsed.WidgetId
           r == ResolveBlockIdFromPrefix(cmd[p].tab, prefix) IN
       \/ /\ CallFails(p, "ResolveBlockIdFromPrefix", prefix, "failed to find widget with ID")
          /\ UNCHANGED loc
       \/ /\ ~r.ok
          /\ CallRejected(p, "ResolveBlockIdFromPrefix", prefix,
                          "failed to find widget with ID", r.err)
          /\ UNCHANGED loc
       \/ /\ r.ok
          /\ Call(p, "ResolveBlockIdFromPrefix", TRUE, prefix)
          /\ loc' = [loc EXCEPT ![p].blockId = r.id]
          /\ Advance(p, RenameResult)
    /\ UNCHANGED <<store, queues, controllers, cmd, updates, sent, cmdCount>>
    /\ UNCHANGED modal

RenameUpdate(p) ==
    /\ At(p, "rename_update")
    /\ \/ /\ CallFails(p, "UpdateObjectMeta", loc[p].blockId, "failed to rename widget")
          /\ UNCHANGED <<blocks, updates>>
       \/ /\ loc[p].blockId \notin DOMAIN blocks
          /\ CallRejected(p, "UpdateObjectMeta", loc[p].blockId,
                          "failed to rename widget", "DependentStoreFailure")
          /\ UNCHANGED <<blocks, updates>>
       \/ /\ loc[p].blockId \in DOMAIN blocks
          /\ blocks' = UpdateObjectMeta(loc[p].blockId, RenameMeta(loc[p].parsed))
          /\ Call(p, "UpdateObjectMeta", TRUE, loc[p].blockId)
          /\ Collect(p, [op |-> "update", id |-> loc[p].blockId])
          /\ Advance(p, RenameResult)
    /\ UNCHANGED <<usedIds, queues, controllers, cmd, loc, sent, cmdCount>>
    /\ UNCHANGED modal

\* wcore.SendWaveObjUpdate(blockORef): the block's update goes to the broker
RenameObjUpdate(p) ==
    /\ At(p, "rename_objupdate")
    /\ sent' = [sent EXCEPT ![p] =
                  Append(@, [fn |-> "SendWaveObjUpdate",
                             updates |-> <<[op |-> "update", id |-> loc[p].blockId]>>])]
    /\ Call(p, "SendWaveObjUpdate", TRUE, loc[p].blockId)
    /\ Advance(p, RenameResult)
    /\ UNCHANGED <<store, queues, controllers, cmd, loc, updates, cmdCount>>
    /\ UNCHANGED modal

RenameSend(p) ==
    /\ At(p, "rename_send")
    /\ SendUpdateEvents(p)
    /\ Advance(p, RenameResult)
    /\ UNCHANGED <<store, queues, controllers, cmd, loc, updates, cmdCount>>
    /\ UNCHANGED modal

(***************************************************************************)
(* widget_move                                                             *)
(***************************************************************************)
\* mutant: the action type is taken the wrong way round
MoveAction_Swapped(parsed, blockId, targetBlockId) ==
    [ActionType |-> IF parsed.Direction = "vertical"
                    THEN LayoutActionDataType_MoveHorizontal
                    ELSE LayoutActionDataType_MoveVertical,
     BlockId |-> blockId,
     TargetBlockId |-> targetBlockId,
     Position |-> IF parsed.Position = "" THEN "after" ELSE parsed.Position,
     Focused |-> TRUE]

MoveAction(parsed, blockId, targetBlockId) ==
    [ActionType |-> IF parsed.Direction = "vertical"
                    THEN LayoutActionDataType_MoveVertical
                    ELSE LayoutActionDataType_MoveHorizontal,
     BlockId |-> blockId,
     TargetBlockId |-> targetBlockId,
     Position |-> IF parsed.Position = "" THEN "after" ELSE parsed.Position,
     Focused |-> TRUE]

MoveResult == [success |-> TRUE, message |-> "moved"]

MoveResolve(p) ==
    /\ At(p, "move_resolve")
    /\ LET prefix == loc[p].parsed.WidgetId
           r == ResolveBlockIdFromPrefix(cmd[p].tab, prefix) IN
       \/ /\ CallFails(p, "ResolveBlockIdFromPrefix", prefix, "failed to find widget with ID")
          /\ UNCHANGED loc
       \/ /\ ~r.ok
          /\ CallRejected(p, "ResolveBlockIdFromPrefix", prefix,
                          "failed to find widget with ID", r.err)
          /\ UNCHANGED loc
       \/ /\ r.ok
          /\ Call(p, "ResolveBlockIdFromPrefix", TRUE, prefix)
          /\ loc' = [loc EXCEPT ![p].blockId = r.id]
          /\ Advance(p, MoveResult)
    /\ UNCHANGED <<store, queues, controllers, cmd, updates, sent, cmdCount>>
    /\ UNCHANGED modal

MoveResolveTarget(p) ==
    /\ At(p, "move_resolve_target")
    /\ LET prefix == loc[p].parsed.TargetWidgetId
           r == ResolveBlockIdFromPrefix(cmd[p].tab, prefix) IN
       \/ /\ CallFails(p, "ResolveBlockIdFromPrefix", prefix,
                       "failed to find target widget with ID")
          /\ UNCHANGED loc
       \/ /\ ~r.ok
          /\ CallRejected(p, "ResolveBlockIdFromPrefix", prefix,
                          "failed to find target widget with ID", r.err)
          /\ UNCHANGED loc
       \/ /\ r.ok
          /\ Call(p, "ResolveBlockIdFromPrefix", TRUE, prefix)
          /\ loc' = [loc EXCEPT ![p].targetBlockId = r.id]
          /\ Advance(p, MoveResult)
    /\ UNCHANGED <<store, queues, controllers, cmd, updates, sent, cmdCount>>
    /\ UNCHANGED modal

MoveQueue(p) ==
    /\ At(p, "move_queue")
    /\ \/ /\ CallFails(p, "QueueLayoutActionForTab", loc[p].blockId, "failed to move widget")
          /\ UNCHANGED <<layout, updates, queued>>
       \/ /\ Queued(p, MoveAction(loc[p].parsed, loc[p].blockId, loc[p].targetBlockId))
          /\ Advance(p, MoveResult)
    /\ UNCHANGED <<store, controllers, cmd, loc, sent, cmdCount>>
    /\ UNCHANGED modal

MoveSend(p) ==
    /\ At(p, "move_send")
    /\ SendUpdateEvents(p)
    /\ Advance(p, MoveResult)
    /\ UNCHANGED <<store, queues, controllers, cmd, loc, updates, cmdCount>>
    /\ UNCHANGED modal

(***************************************************************************)
(* The layout tree takes the next queued action of a tab                   *)
(***************************************************************************)
LayoutApply(tab) ==
    /\ NoneDone
    /\ layoutQueue[tab] # <<>>
    /\ layoutSeen' = [layoutSeen EXCEPT ![tab] = Append(@, Head(layoutQueue[tab]))]
    /\ layoutQueue' = [layoutQueue EXCEPT ![tab] = Tail(@)]
    /\ UNCHANGED <<store, queuedLog, controllers, pc, cmd, loc, calls, updates, sent, ret,
                   queued, cmdCount>>
    /\ UNCHANGED modal

Next ==
    \/ \E p \in Procs : Start(p)
    \/ \E p \in Procs : Describe(p)
    \/ \E p \in Procs : Finish(p)
    \/ \E p \in Procs : OpenCreate(p)
    \/ \E p \in Procs : OpenResolve(p)
    \/ \E p \in Procs : OpenQueue(p)
    \/ \E p \in Procs : OpenResync(p)
    \/ \E p \in Procs : OpenSend(p)
    \/ \E p \in Procs : CloseResolve(p)
    \/ \E p \in Procs : CloseQueue(p)
    \/ \E p \in Procs : CloseDelete(p)
    \/ \E p \in Procs : CloseSend(p)
    \/ \E p \in Procs : RenameResolve(p)
    \/ \E p \in Procs : RenameUpdate(p)
    \/ \E p \in Procs : RenameObjUpdate(p)
    \/ \E p \in Procs : RenameSend(p)
    \/ \E p \in Procs : MoveResolve(p)
    \/ \E p \in Procs : MoveResolveTarget(p)
    \/ \E p \in Procs : MoveQueue(p)
    \/ \E p \in Procs : MoveSend(p)
    \/ \E tab \in Tabs : LayoutApply(tab)

Spec == Init /\ [][Next]_vars

\* the statement an invocation is at: every collaborator call gets the
\* callback's context, made by context.WithTimeout, so it returns or fails
\* with the deadline and the callback goes on to its next statement
Step(p) ==
    \/ OpenCreate(p) \/ OpenResolve(p) \/ OpenQueue(p) \/ OpenResync(p) \/ OpenSend(p)
    \/ CloseResolve(p) \/ CloseQueue(p) \/ CloseDelete(p) \/ CloseSend(p)
    \/ RenameResolve(p) \/ RenameUpdate(p) \/ RenameObjUpdate(p) \/ RenameSend(p)
    \/ MoveResolve(p) \/ MoveResolveTarget(p) \/ MoveQueue(p) \/ MoveSend(p)

\* no call of a callback waits for ever, and a caller takes what its call
\* returned
FairSpec ==
    /\ Spec
    /\ \A p \in Procs : WF_vars(Step(p)) /\ WF_vars(Finish(p))

(***************************************************************************)
(* The rename modal (frontend/app/modals/renamewidgetmodal.tsx).  A name   *)
(* is a sequence of characters.  The modal is opened for a block with the  *)
(* block's name; handleRename runs up to its await in one step and goes on *)
(* when the SetMetaCommand request is answered.                            *)
(***************************************************************************)
MaxRpcs == 2

Whitespace == {" ", "\t", "\n"}

RECURSIVE TrimStart(_)
TrimStart(name) ==
    IF name # <<>> /\ Head(name) \in Whitespace THEN TrimStart(Tail(name)) ELSE name

RECURSIVE TrimEnd(_)
TrimEnd(name) ==
    IF name # <<>> /\ name[Len(name)] \in Whitespace
    THEN TrimEnd(SubSeq(name, 1, Len(name) - 1))
    ELSE name

\* String.prototype.trim
trim(name) == TrimEnd(TrimStart(name))

\* the names a block is given before the modal opens, and what is typed
CurrentNames == {<<>>, <<"a">>, <<" ", "a">>}
TypedNames == {<<>>, <<" ">>, <<"a">>, <<" ", "a">>, <<"a", "\t">>, <<"b">>,
               <<" ", "a", " ", "b", " ">>}

\* the messages of the errors a request is rejected with
RpcErrors == {"rpc failed", "timeout"}

Null == [t |-> "null"]

\* WOS.makeORef
makeORef(otype, oid) == <<otype, oid>>

\* the argument of RpcApi.SetMetaCommand: trimmedName || null
SetMetaRequest(oid, trimmedName) ==
    [oref |-> makeORef("block", oid),
     meta |-> ("display:name" :> (IF trimmedName = <<>> THEN Null ELSE JStr(trimmedName)))]

\* the store after a SetMetaCommand: a key given a string is set, a key given
\* null is removed, the other keys stay
SetMetaCommand(req) ==
    LET id == req.oref[2]
        old == blocks[id].meta
        set == {k \in DOMAIN req.meta : req.meta[k] # Null}
        keys == (DOMAIN old \ DOMAIN req.meta) \cup set IN
    [blocks EXCEPT ![id].meta = [k \in keys |-> IF k \in set THEN req.meta[k].s ELSE old[k]]]

\* the blocks, one of them named
Named(oid, name) ==
    IF name = <<>> THEN InitBlocks
    ELSE [InitBlocks EXCEPT ![oid].meta = ("display:name" :> name) @@ @]

\* the modal has been pushed for a block of the tab: useState(currentName || "")
ModalInit ==
    /\ IdleTools
    /\ \E oid \in {IdA, IdC} : \E name \in CurrentNames :
         /\ blocks = Named(oid, name)
         /\ props = [blockOid |-> oid, currentName |-> name]
         /\ newName = name
    /\ modalOpen = TRUE
    /\ error = ""
    /\ isRenaming = FALSE
    /\ inFlight = <<>>
    /\ rpcLog = <<>>

\* modalsModel.popModal
popModal == modalOpen' = FALSE

\* mutant: the name is compared and sent as it was typed
handleRename_NoTrim ==
    LET trimmedName == newName IN
    /\ IF trimmedName = props.currentName
       THEN /\ popModal
            /\ UNCHANGED <<isRenaming, inFlight, rpcLog>>
       ELSE /\ isRenaming' = TRUE
            /\ inFlight' = Append(inFlight, SetMetaRequest(props.blockOid, trimmedName))
            /\ rpcLog' = Append(rpcLog, SetMetaRequest(props.blockOid, trimmedName))
            /\ UNCHANGED modalOpen
    /\ UNCHANGED <<blocks, tools, props, newName, error>>

\* handleRename up to its await
handleRename ==
    LET trimmedName == trim(newName) IN
    /\ IF trimmedName = props.currentName
       THEN /\ popModal
            /\ UNCHANGED <<isRenaming, inFlight, rpcLog>>
       ELSE /\ isRenaming' = TRUE
            /\ inFlight' = Append(inFlight, SetMetaRequest(props.blockOid, trimmedName))
            /\ rpcLog' = Append(rpcLog, SetMetaRequest(props.blockOid, trimmedName))
            /\ UNCHANGED modalOpen
    /\ UNCHANGED <<blocks, tools, props, newName, error>>

\* the Rename button: onOk, with okDisabled={isRenaming}
OnOk ==
    /\ modalOpen
    /\ ~isRenaming
    /\ Len(rpcLog) < MaxRpcs
    /\ handleRename

\* Enter in the input: onKeyDown, with disabled={isRenaming}
OnKeyDown ==
    /\ modalOpen
    /\ ~isRenaming
    /\ error = ""
    /\ Len(rpcLog) < MaxRpcs
    /\ handleRename

\* typing in the input: onChange
OnChange(value) ==
    /\ modalOpen
    /\ ~isRenaming
    /\ newName' = value
    /\ error' = ""
    /\ UNCHANGED <<blocks, tools, modalOpen, props, isRenaming, inFlight, rpcLog>>

\* the request is answered: the rest of the try block, then finally
HandleRenameResolved ==
    /\ inFlight # <<>>
    /\ Head(inFlight).oref[2] \in DOMAIN blocks
    /\ blocks' = SetMetaCommand(Head(inFlight))
    /\ inFlight' = Tail(inFlight)
    /\ popModal
    /\ isRenaming' = FALSE
    /\ UNCHANGED <<tools, props, newName, error, rpcLog>>

\* mutant: the flag is not reset when the request is rejected
HandleRenameRejected_NoFinally ==
    \E message \in RpcErrors :
        /\ inFlight # <<>>
        /\ inFlight' = Tail(inFlight)
        /\ error' = message
        /\ UNCHANGED <<blocks, tools, modalOpen, props, newName, isRenaming, rpcLog>>

\* the request is rejected: the catch block, then finally
HandleRenameRejected ==
    \E message \in RpcErrors :
        /\ inFlight # <<>>
        /\ inFlight' = Tail(inFlight)
        /\ error' = message
        /\ isRenaming' = FALSE
        /\ UNCHANGED <<blocks, tools, modalOpen, props, newName, rpcLog>>

\* Cancel and the close button: handleClose
handleClose ==
    /\ modalOpen
    /\ popModal
    /\ UNCHANGED <<blocks, tools, props, newName, error, isRenaming, inFlight, rpcLog>>

ModalNext ==
    \/ OnOk
    \/ OnKeyDown
    \/ \E value \in TypedNames : OnChange(value)
    \/ HandleRenameResolved
    \/ HandleRenameRejected
    \/ handleClose

ModalSpec == ModalInit /\ [][ModalNext]_vars

(***************************************************************************)
(* Properties                                                              *)
(***************************************************************************)
Idx(p) == 1..Len(calls[p])

\* the calls of a collaborator an invocation has made, and those that succeeded
Made(p, fn) == {i \in Idx(p) : calls[p][i].fn = fn}
MadeOk(p, fn) == {i \in Made(p, fn) : calls[p][i].ok}

Succeeded(p) == pc[p] = "done" /\ ret[p].err = NoErr
Failed(p) == pc[p] = "done" /\ ret[p].err # NoErr
ValidationFailed(p) == ret[p].err.msg # "" /\ ret[p].err.cause = ""
Unresolved(p) == ret[p].err.cause = "UnresolvedIdentifier"

\* the layout actions an invocation has queued for its tab, in order
QueuedBy(p) == queued[p]

Notifications == {"SendUpdateEvents", "SendWaveObjUpdate"}
Mutations == {"CreateBlock", "DeleteBlock", "UpdateObjectMeta", "QueueLayoutActionForTab",
              "ResyncController"}

\* C1: in a widget_close, every DeleteBlock call comes after a successful
\* QueueLayoutActionForTab call of the same invocation that queued the Remove
\* action of the block being deleted; without that queued action there is no
\* DeleteBlock call.
C1_RemoveQueuedBeforeDelete ==
    \A p \in Procs :
        cmd[p].kind = "close" =>
            \A i \in Made(p, "DeleteBlock") :
                /\ \E j \in MadeOk(p, "QueueLayoutActionForTab") :
                       j < i /\ calls[p][j].arg = calls[p][i].arg
                /\ \E k \in 1..Len(QueuedBy(p)) :
                       QueuedBy(p)[k] =
                           [ActionType |-> "delete", BlockId |-> calls[p][i].arg,
                            TargetBlockId |-> NoId, Position |-> "", Focused |-> FALSE]

C1_Witness ==
    \E p \in Procs : cmd[p].kind = "close" /\ MadeOk(p, "DeleteBlock") # {}

\* C2: in a widget_open, the layout action is queued only after the block it
\* names was created, the controller is started only for a term widget and
\* only after that block's layout action was queued, and a successful open of
\* a term widget has started the controller.
C2_OpenOrder ==
    \A p \in Procs :
        cmd[p].kind = "open" =>
            /\ \A i \in Made(p, "QueueLayoutActionForTab") :
                   \E j \in MadeOk(p, "CreateBlock") :
                       j < i /\ calls[p][j].arg = calls[p][i].arg
            /\ \A i \in Made(p, "ResyncController") :
                   /\ loc[p].parsed.WidgetType = "term"
                   /\ \E j \in MadeOk(p, "QueueLayoutActionForTab") :
                          /\ j < i
                          /\ calls[p][j].arg = calls[p][i].arg
                          /\ \E k \in MadeOk(p, "CreateBlock") :
                                 k < j /\ calls[p][k].arg = calls[p][i].arg
            /\ (Succeeded(p) /\ loc[p].parsed.WidgetType = "term")
                   => MadeOk(p, "ResyncController") # {}

C2_Witness ==
    \E p \in Procs : cmd[p].kind = "open" /\ MadeOk(p, "ResyncController") # {}

\* C3: an invocation whose input fails validation has returned without any
\* collaborator call: nothing created, deleted, updated, resolved, queued,
\* started or sent.
C3_ValidationFailureNoCalls ==
    \A p \in Procs :
        ValidationFailed(p) =>
            /\ pc[p] = "done"
            /\ calls[p] = <<>>
            /\ updates[p] = <<>>
            /\ sent[p] = <<>>

C3_Witness ==
    \E p, q \in Procs :
        /\ ValidationFailed(p) /\ cmd[p].kind = "move"
        /\ pc[q] = "open_queue"

\* C4: an invocation that returned an error, whatever the reason, has sent
\* nothing to the update broker.
C4_NoNotificationOnFailure ==
    \A p \in Procs : Failed(p) => sent[p] = <<>>

C4_Witness ==
    \E p \in Procs :
        /\ Failed(p)
        /\ ret[p].err.cause = "Timeout"
        /\ MadeOk(p, "QueueLayoutActionForTab") # {}

\* C5: an invocation that returned success has sent exactly one notification
\* to the update broker, and made no other collaborator call after it.
C5_ExactlyOneNotification ==
    \A p \in Procs :
        Succeeded(p) =>
            /\ Len(sent[p]) = 1
            /\ \A i, j \in Idx(p) :
                   (i < j /\ calls[p][i].fn \in Notifications)
                       => calls[p][j].fn \in Notifications

\* C6: once a widget_open has returned, a block it created is in the store
\* only if the invocation queued a layout action for that block.
C6_NoBlockWithoutPlacement ==
    \A p \in Procs :
        (cmd[p].kind = "open" /\ pc[p] = "done") =>
            \A i \in MadeOk(p, "CreateBlock") :
                calls[p][i].arg \in DOMAIN blocks =>
                    \E k \in 1..Len(QueuedBy(p)) :
                        QueuedBy(p)[k].BlockId = calls[p][i].arg

\* C7: an invocation that returned a validation error or an unresolved
\* identifier error has changed neither the store nor the layout queue.
C7_RejectedChangesNothing ==
    \A p \in Procs :
        (pc[p] = "done" /\ (ValidationFailed(p) \/ Unresolved(p))) =>
            \A i \in Idx(p) : ~(calls[p][i].fn \in Mutations /\ calls[p][i].ok)

\* C8: whenever an invocation queues a Move or Split action, the subject and
\* the target of the action are blocks of the store at that moment.
MoveOrSplit ==
    {LayoutActionDataType_MoveHorizontal, LayoutActionDataType_MoveVertical,
     LayoutActionDataType_SplitHorizontal, LayoutActionDataType_SplitVertical}

C8_NoStaleMoveOrSplit ==
    [][\A p \in Procs :
          (/\ pc[p] \in {"move_queue", "open_queue"}
           /\ pc'[p] # pc[p]
           /\ Len(queuedLog'[cmd[p].tab]) > Len(queuedLog[cmd[p].tab]))
              => LET log == queuedLog'[cmd[p].tab]
                     a == log[Len(log)] IN
                 a.ActionType \in MoveOrSplit
                     => /\ a.BlockId \in DOMAIN blocks
                        /\ a.TargetBlockId \in DOMAIN blocks]_vars

\* C9: per tab, the actions the layout tree has applied followed by those
\* still pending are exactly the actions queued, in queueing order; the log
\* of queued actions only grows at its end, by the action a running
\* invocation queues, so the actions of an invocation that has returned come
\* before the actions of any invocation that starts later.
IsPrefix(a, b) == Len(a) <= Len(b) /\ SubSeq(b, 1, Len(a)) = a

C9_LayoutOrder ==
    /\ [](\A tab \in Tabs : layoutSeen[tab] \o layoutQueue[tab] = queuedLog[tab])
    /\ [][\A tab \in Tabs :
             /\ IsPrefix(layoutSeen[tab], layoutSeen'[tab])
             /\ IsPrefix(queuedLog[tab], queuedLog'[tab])
             /\ queuedLog'[tab] # queuedLog[tab] =>
                    \E p \in Procs :
                        /\ pc[p] \notin {"idle", "done"}
                        /\ cmd[p].tab = tab
                        /\ queued'[p] = Append(queued[p], queuedLog'[tab][Len(queuedLog'[tab])])
                        /\ Len(queuedLog'[tab]) = Len(queuedLog[tab]) + 1]_vars

C9_Witness ==
    \E tab \in Tabs :
        /\ Len(layoutSeen[tab]) = 2
        /\ layoutSeen[tab][1] # layoutSeen[tab][2]
        /\ \A p \in Procs : pc[p] = "idle"

\* C10: a widget_open without split_direction that returned success made one
\* CreateBlock call, the block has view = widget_type, the invocation queued
\* one action, an Insert of that block with no target, no position and
\* focus, and it resolved no identifier.
C10_OpenWithoutSplit ==
    \A p \in Procs :
        (cmd[p].kind = "open" /\ Succeeded(p) /\ loc[p].parsed.SplitDirection = "") =>
            /\ Cardinality(Made(p, "CreateBlock")) = 1
            /\ MadeOk(p, "CreateBlock") = Made(p, "CreateBlock")
            /\ loc[p].blockMeta.view = loc[p].parsed.WidgetType
            /\ loc[p].blockId \in DOMAIN blocks
                   => blocks[loc[p].blockId].meta.view = loc[p].parsed.WidgetType
            /\ Len(QueuedBy(p)) = 1
            /\ QueuedBy(p)[1] =
                   [ActionType |-> "insert", BlockId |-> loc[p].blockId,
                    TargetBlockId |-> NoId, Position |-> "", Focused |-> TRUE]
            /\ Made(p, "ResolveBlockIdFromPrefix") = {}

C10_Witness ==
    \E p \in Procs :
        /\ cmd[p].kind = "open" /\ Succeeded(p)
        /\ loc[p].parsed.SplitDirection = ""
        /\ loc[p].parsed.TargetWidget # NoId

\* the arguments of the successful calls of a collaborator, in call order
OkArgs(p, fn) ==
    LET ok(c) == c.fn = fn /\ c.ok
    IN
    [i \in 1..Len(SelectSeq(calls[p], ok)) |-> SelectSeq(calls[p], ok)[i].arg]

\* C11: a widget_open with split_direction that returned success has queued
\* exactly one layout action: SplitHorizontal for "horizontal" and
\* SplitVertical for "vertical", on the block its CreateBlock call made, with
\* a target id of the pool that starts with target_widget and is the one the
\* invocation resolved, with the given position or "after" when none was
\* given, and with focus.
C11_OpenWithSplit ==
    \A p \in Procs :
        (cmd[p].kind = "open" /\ Succeeded(p) /\ loc[p].parsed.SplitDirection # "") =>
            /\ Len(QueuedBy(p)) = 1
            /\ LET a == QueuedBy(p)[1]
                   parsed == loc[p].parsed IN
               /\ parsed.SplitDirection = "horizontal" => a.ActionType = "splithorizontal"
               /\ parsed.SplitDirection = "vertical" => a.ActionType = "splitvertical"
               /\ a.ActionType \in {"splithorizontal", "splitvertical"}
               /\ OkArgs(p, "CreateBlock") = <<a.BlockId>>
               /\ OkArgs(p, "ResolveBlockIdFromPrefix") = <<parsed.TargetWidget>>
               /\ a.TargetBlockId \in IdPool
               /\ HasPrefix(a.TargetBlockId, parsed.TargetWidget)
               /\ a.TargetBlockId = loc[p].targetBlockId
               /\ parsed.Position # "" => a.Position = parsed.Position
               /\ parsed.Position = "" => a.Position = "after"
               /\ a.Focused = TRUE

C11_Witness ==
    \E p \in Procs :
        /\ cmd[p].kind = "open" /\ Succeeded(p)
        /\ loc[p].parsed.SplitDirection = "horizontal"
        /\ loc[p].parsed.Position = ""
        /\ Len(QueuedBy(p)) = 1

\* C12: a widget_move that returned success has resolved widget_id and then
\* target_widget_id, has queued exactly one layout action, MoveHorizontal for
\* "horizontal" and MoveVertical for "vertical", on the two resolved ids, with
\* the given position or "after" when none was given, and with focus; it has
\* made no CreateBlock, DeleteBlock, UpdateObjectMeta or ResyncController
\* call.
C12_Move ==
    \A p \in Procs :
        (cmd[p].kind = "move" /\ Succeeded(p)) =>
            /\ OkArgs(p, "ResolveBlockIdFromPrefix") =
                   <<loc[p].parsed.WidgetId, loc[p].parsed.TargetWidgetId>>
            /\ Len(QueuedBy(p)) = 1
            /\ LET a == QueuedBy(p)[1]
                   parsed == loc[p].parsed IN
               /\ parsed.Direction = "horizontal" => a.ActionType = "movehorizontal"
               /\ parsed.Direction = "vertical" => a.ActionType = "movevertical"
               /\ a.ActionType \in {"movehorizontal", "movevertical"}
               /\ a.BlockId \in IdPool /\ HasPrefix(a.BlockId, parsed.WidgetId)
               /\ a.TargetBlockId \in IdPool
               /\ HasPrefix(a.TargetBlockId, parsed.TargetWidgetId)
               /\ parsed.Position # "" => a.Position = parsed.Position
               /\ parsed.Position = "" => a.Position = "after"
               /\ a.Focused = TRUE
            /\ \A fn \in {"CreateBlock", "DeleteBlock", "UpdateObjectMeta", "ResyncController"} :
                   Made(p, fn) = {}

C12_Witness ==
    \E p \in Procs :
        /\ cmd[p].kind = "move" /\ Succeeded(p)
        /\ loc[p].parsed.Direction = "vertical"
        /\ loc[p].parsed.Position = ""
        /\ Len(QueuedBy(p)) = 1

\* the block named id carries the display name
HasDisplayName(id, name) ==
    /\ id \in DOMAIN blocks
    /\ "display:name" \in DOMAIN blocks[id].meta
    /\ blocks[id].meta["display:name"] = name

\* C13: a widget_rename, whatever its outcome, queues no layout action and
\* makes no QueueLayoutActionForTab call; a step of a widget_rename leaves
\* the layout queues and the set of blocks as they are, and changes at most
\* the block it resolved, of which it sets the key display:name to the given
\* name and leaves the tab and every other key of the meta as they were.
C13_RenameFrame ==
    /\ [](\A p \in Procs :
             cmd[p].kind = "rename" =>
                 /\ QueuedBy(p) = <<>>
                 /\ Made(p, "QueueLayoutActionForTab") = {}
                 /\ Succeeded(p) => OkArgs(p, "UpdateObjectMeta") = <<loc[p].blockId>>)
    /\ [][\A p \in Procs :
             (cmd[p].kind = "rename" /\ pc'[p] # pc[p]) =>
                 /\ layout' = layout
                 /\ DOMAIN blocks' = DOMAIN blocks
                 /\ \A id \in DOMAIN blocks :
                        blocks'[id] # blocks[id] =>
                            /\ pc[p] = "rename_update"
                            /\ id = loc[p].blockId
                            /\ blocks'[id].tab = blocks[id].tab
                            /\ DOMAIN blocks'[id].meta =
                                   DOMAIN blocks[id].meta \cup {"display:name"}
                            /\ blocks'[id].meta["display:name"] = loc[p].parsed.Name
                            /\ \A k \in DOMAIN blocks[id].meta \ {"display:name"} :
                                   blocks'[id].meta[k] = blocks[id].meta[k]]_vars

C13_Witness ==
    \E p \in Procs :
        /\ cmd[p].kind = "rename" /\ Succeeded(p)
        /\ HasDisplayName(loc[p].blockId, loc[p].parsed.Name)
        /\ blocks[loc[p].blockId].meta.view = "web"
        /\ blocks[loc[p].blockId].meta.url = "https://x"

\* C14: a widget_rename that writes the name a block already carries (the
\* second of two identical submissions) leaves the block store exactly as the
\* first submission left it, and queues no layout action.
C14_RenameIdempotent ==
    [][\A p \in Procs :
          (/\ pc[p] = "rename_update"
           /\ pc'[p] = "rename_objupdate"
           /\ HasDisplayName(loc[p].blockId, loc[p].parsed.Name))
              => /\ blocks' = blocks
                 /\ layout' = layout
                 /\ queued' = queued]_vars

\* two identical submissions have both written the name
C14_Witness ==
    \E p, q \in Procs :
        /\ p # q
        /\ cmd[p].kind = "rename" /\ Succeeded(p)
        /\ cmd[q].kind = "rename" /\ pc[q] = "rename_send"
        /\ loc[p].parsed = loc[q].parsed
        /\ loc[p].blockId = loc[q].blockId
        /\ MadeOk(p, "UpdateObjectMeta") # {} /\ MadeOk(q, "UpdateObjectMeta") # {}
        /\ HasDisplayName(loc[p].blockId, loc[p].parsed.Name)
        /\ QueuedBy(p) = <<>> /\ QueuedBy(q) = <<>>

\* the statements that resolve an identifier prefix, the prefix each of them
\* resolves, and the message each of them wraps a failure in
ResolveLabels ==
    {"close_resolve", "rename_resolve", "move_resolve", "move_resolve_target", "open_resolve"}

ResolvePrefix(p) ==
    CASE pc[p] = "move_resolve_target" -> loc[p].parsed.TargetWidgetId
      [] pc[p] = "open_resolve" -> loc[p].parsed.TargetWidget
      [] OTHER -> loc[p].parsed.WidgetId

ResolveMsg(label) ==
    CASE label = "move_resolve_target" -> "failed to find target widget with ID"
      [] label = "open_resolve" -> "failed to find target widget"
      [] OTHER -> "failed to find widget with ID"

\* the errors a failed resolution at the statement may return: the resolver's
\* one error, or the failure of the store call itself
ResolveErrors(label) ==
    {[msg |-> ResolveMsg(label), cause |-> c] : c \in {"UnresolvedIdentifier"} \cup Causes}

\* C15: a widget_close whose widget_id is the prefix of no block of the tab
\* returns at the resolution with an error and no result, the error being the
\* unresolved-identifier error unless the store call itself failed; it leaves
\* the store and the layout queues as they are, queues nothing, collects no
\* update and sends nothing; a widget_close that returned the
\* unresolved-identifier error made the resolution call and no other call.
C15_CloseUnknownPrefix ==
    /\ [](\A p \in Procs :
             (cmd[p].kind = "close" /\ Unresolved(p)) =>
                 /\ Failed(p)
                 /\ Len(calls[p]) = 1
                 /\ calls[p][1].fn = "ResolveBlockIdFromPrefix" /\ ~calls[p][1].ok
                 /\ QueuedBy(p) = <<>> /\ sent[p] = <<>>)
    /\ [][\A p \in Procs :
             (/\ pc[p] = "close_resolve"
              /\ pc'[p] # pc[p]
              /\ PrefixMatches(cmd[p].tab, loc[p].parsed.WidgetId) = {})
                 => /\ pc'[p] = "done"
                    /\ ret'[p].result = Nil
                    /\ ret'[p].err \in ResolveErrors("close_resolve")
                    /\ store' = store
                    /\ layout' = layout
                    /\ queued'[p] = <<>>
                    /\ updates'[p] = <<>>
                    /\ sent'[p] = <<>>]_vars

C15_Witness ==
    \E p \in Procs :
        /\ cmd[p].kind = "close" /\ Failed(p) /\ Unresolved(p)
        /\ loc[p].parsed.WidgetId = PrefixZZ
        /\ PrefixMatches(cmd[p].tab, loc[p].parsed.WidgetId) = {}

\* C16: a resolution goes on to the next statement only when exactly one live
\* block of the tab starts with the prefix, and then with that block's id; when
\* no block or several blocks start with it, the invocation returns no result
\* and an error that is the same in both cases and depends only on the
\* statement (or the failure of the store call itself), having changed
\* neither the store nor the layout queues and sent nothing.
C16_Resolution ==
    [][\A p \in Procs :
          (pc[p] \in ResolveLabels /\ pc'[p] # pc[p]) =>
              LET matches == PrefixMatches(cmd[p].tab, ResolvePrefix(p))
                  resolved == IF pc[p] \in {"move_resolve_target", "open_resolve"}
                              THEN loc'[p].targetBlockId ELSE loc'[p].blockId IN
              /\ pc'[p] # "done" =>
                     /\ Cardinality(matches) = 1
                     /\ resolved \in matches
              /\ Cardinality(matches) # 1 =>
                     /\ pc'[p] = "done"
                     /\ ret'[p].result = Nil
                     /\ ret'[p].err \in ResolveErrors(pc[p])
                     /\ store' = store
                     /\ layout' = layout
                     /\ sent'[p] = sent[p]
                     /\ updates'[p] = updates[p]]_vars

\* a prefix that two live blocks of the tab start with was rejected
C16_Witness ==
    \E p \in Procs :
        /\ cmd[p].kind \in {"close", "rename", "move"}
        /\ Failed(p) /\ Unresolved(p)
        /\ Cardinality(PrefixMatches(cmd[p].tab, loc[p].parsed.WidgetId)) = 2

\* the error class of the taxonomy a parser message belongs to
ErrorClass(msg) ==
    CASE msg = "" -> "none"
      [] msg = "input is required" -> "MissingInput"
      [] msg = "failed to unmarshal input" -> "MalformedInput"
      [] msg \in {"widget_type is required", "url is required for web widget",
                  "target_widget is required when split_direction is specified",
                  "widget_id is required", "name is required",
                  "target_widget_id is required", "direction is required"} -> "MissingField"
      [] msg \in {"invalid widget_type", "invalid split_direction", "invalid position",
                  "invalid direction"} -> "InvalidEnumValue"
      [] OTHER -> "other"

\* a field of a payload is given and not the empty string
Given(v) == v.t # "absent" /\ v # JStr("")
IdGiven(v) == v.t # "absent" /\ v # JStr(NoId)

\* a field of a payload holds a string outside the allowed values
NotAmong(v, allowed) == v.t = "string" /\ v.s # "" /\ v.s \notin allowed

\* the invocation runs widget_open on a JSON object
OpenOn(p) == cmd[p].kind = "open" /\ cmd[p].input.t = "object"

\* split_direction is set and target_widget is not
SplitWithoutTarget(input) == Given(input.split_direction) /\ ~IdGiven(input.target_widget)

\* widget_type is web and url is not given
WebWithoutUrl(input) == input.widget_type = JStr("web") /\ ~Given(input.url)

\* C17 as stated: every widget_open with split_direction set and no
\* target_widget returns a missing-field error without any collaborator call.
C17_SplitWithoutTargetMissingField ==
    \A p \in Procs :
        (OpenOn(p) /\ SplitWithoutTarget(cmd[p].input)) =>
            /\ pc[p] = "done"
            /\ ErrorClass(ret[p].err.msg) = "MissingField"
            /\ calls[p] = <<>>

\* C17 amended: every widget_open with split_direction set and no
\* target_widget returns a validation error without any collaborator call, so
\* before any block is created; the error is the missing-field error for
\* target_widget when the payload decodes, widget_type is an allowed type (with
\* a url when it is web) and split_direction is an allowed direction.
C17_SplitWithoutTargetRejected ==
    \A p \in Procs :
        (OpenOn(p) /\ SplitWithoutTarget(cmd[p].input)) =>
            LET input == cmd[p].input IN
            /\ pc[p] = "done"
            /\ ValidationFailed(p)
            /\ calls[p] = <<>>
            /\ (/\ OpenFieldsDecode(input)
                /\ DecodeStr(input.widget_type) \in validTypes
                /\ ~WebWithoutUrl(input)
                /\ DecodeStr(input.split_direction) \in validDirections)
                   => ret[p].err.msg =
                          "target_widget is required when split_direction is specified"

C17_Witness ==
    \E p \in Procs :
        /\ OpenOn(p) /\ SplitWithoutTarget(cmd[p].input)
        /\ cmd[p].input.target_widget = JStr(NoId)
        /\ ret[p].err.msg = "target_widget is required when split_direction is specified"
        /\ \E q \in Procs : pc[q] = "open_queue"

\* C18: every widget_open with widget_type web and an empty or absent url
\* returns a validation error without any collaborator call: no resolution,
\* no block created, nothing queued, nothing sent.
C18_WebWithoutUrlRejected ==
    \A p \in Procs :
        (OpenOn(p) /\ WebWithoutUrl(cmd[p].input)) =>
            /\ pc[p] = "done"
            /\ ValidationFailed(p)
            /\ calls[p] = <<>>
            /\ QueuedBy(p) = <<>> /\ sent[p] = <<>>

C18_Witness ==
    \E p \in Procs :
        /\ OpenOn(p) /\ WebWithoutUrl(cmd[p].input)
        /\ cmd[p].input.target_widget = JStr(ShortId(IdC))
        /\ cmd[p].input.split_direction = JStr("horizontal")
        /\ ret[p].err.msg = "url is required for web widget"

\* an enumerated-field rule, and a cross-field rule, that a payload breaks
BreaksEnumRule(input) ==
    \/ NotAmong(input.widget_type, validTypes)
    \/ NotAmong(input.split_direction, validDirections)
    \/ NotAmong(input.position, validPositions)

BreaksCrossFieldRule(input) == WebWithoutUrl(input) \/ SplitWithoutTarget(input)

\* C19: a widget_open payload that decodes, names a widget_type and breaks
\* both an enumerated-field rule and a cross-field rule is rejected with the
\* invalid-enum-value error.
C19_FieldRulesBeforeCrossFieldRules ==
    \A p \in Procs :
        (/\ OpenOn(p)
         /\ OpenFieldsDecode(cmd[p].input)
         /\ Given(cmd[p].input.widget_type)
         /\ BreaksEnumRule(cmd[p].input)
         /\ BreaksCrossFieldRule(cmd[p].input))
            => ErrorClass(ret[p].err.msg) = "InvalidEnumValue"

\* a payload that is null, or an object without any field
EmptyPayload(input) ==
    \/ input.t = "nil"
    \/ /\ input.t = "object"
       /\ ~input.extra
       /\ \A f \in DOMAIN input \ {"t", "extra"} : input[f].t = "absent"

\* C20: an invocation of any tool on a null or empty payload returns the
\* missing-input error.
C20_EmptyPayloadMissingInput ==
    \A p \in Procs :
        (cmd[p].kind # "none" /\ EmptyPayload(cmd[p].input)) =>
            /\ pc[p] = "done"
            /\ ErrorClass(ret[p].err.msg) = "MissingInput"

\* a field of an object payload holds a value that is not a string
WrongType(input) == \E f \in DOMAIN input \ {"t", "extra"} : input[f].t = "number"

\* C21: an invocation of any tool on a payload with a field outside the
\* tool's field set, or with a field of the wrong type, returns a validation
\* error without any collaborator call.
C21_ClosedSchema ==
    \A p \in Procs :
        (/\ cmd[p].kind # "none"
         /\ cmd[p].input.t = "object"
         /\ (cmd[p].input.extra \/ WrongType(cmd[p].input)))
            => /\ pc[p] = "done"
               /\ ValidationFailed(p)
               /\ calls[p] = <<>>

\* the payload of a widget_move decodes and passes every rule
MoveAcceptable(input) ==
    /\ input.t = "object"
    /\ MoveFieldsDecode(input)
    /\ IdGiven(input.widget_id)
    /\ IdGiven(input.target_widget_id)
    /\ Given(input.direction)
    /\ DecodeStr(input.direction) \in {"horizontal", "vertical"}
    /\ ~Given(input.position) \/ DecodeStr(input.position) \in {"before", "after"}

\* C22: a widget_move is accepted (it goes on to its first collaborator call)
\* exactly when widget_id, target_widget_id and direction are given,
\* direction is horizontal or vertical and position is not given, before or
\* after; with both ids given and no direction it returns the missing-field
\* error for direction; an accepted command carries the position as given, an
\* absent one as the empty string.
C22_MoveValidation ==
    \A p \in Procs :
        cmd[p].kind = "move" =>
            LET input == cmd[p].input IN
            /\ ValidationFailed(p) <=> ~MoveAcceptable(input)
            /\ ValidationFailed(p) => pc[p] = "done" /\ calls[p] = <<>>
            /\ (/\ input.t = "object" /\ MoveFieldsDecode(input)
                /\ IdGiven(input.widget_id) /\ IdGiven(input.target_widget_id)
                /\ ~Given(input.direction))
                   => /\ ret[p].err.msg = "direction is required"
                      /\ ErrorClass(ret[p].err.msg) = "MissingField"
            /\ ~ValidationFailed(p) =>
                   /\ loc[p].parsed.Direction = DecodeStr(input.direction)
                   /\ loc[p].parsed.Position = DecodeStr(input.position)
                   /\ ~Given(input.position) => loc[p].parsed.Position = ""

C22_Witness ==
    \E p, q \in Procs :
        /\ cmd[p].kind = "move" /\ ret[p].err.msg = "direction is required"
        /\ cmd[q].kind = "move" /\ pc[q] = "move_send"
        /\ ~Given(cmd[q].input.position)
        /\ loc[q].parsed.Position = ""
        /\ QueuedBy(q)[1].Position = "after"

\* C23: a widget_rename whose payload decodes and gives no name or no
\* widget_id returns a missing-field error without any collaborator call; an
\* UpdateObjectMeta call of a widget_rename carries a name that is not empty,
\* and no block of the store carries an empty display name.
C23_RenameNeverClears ==
    /\ \A p \in Procs :
           cmd[p].kind = "rename" =>
               LET input == cmd[p].input IN
               /\ (/\ input.t = "object"
                   /\ IsStringOrAbsent(input.widget_id) /\ IsStringOrAbsent(input.name)
                   /\ (~Given(input.name) \/ ~IdGiven(input.widget_id)))
                      => /\ pc[p] = "done"
                         /\ ErrorClass(ret[p].err.msg) = "MissingField"
                         /\ calls[p] = <<>>
               /\ Made(p, "UpdateObjectMeta") # {} =>
                      /\ loc[p].parsed.Name # ""
                      /\ loc[p].parsed.Name = DecodeStr(input.name)
    /\ \A id \in DOMAIN blocks : ~HasDisplayName(id, "")

C23_Witness ==
    \E p \in Procs :
        /\ cmd[p].kind = "rename"
        /\ ret[p].err.msg = "name is required"
        /\ calls[p] = <<>>
        /\ IdGiven(cmd[p].input.widget_id)
        /\ \E id \in DOMAIN blocks :
               /\ HasPrefix(id, DecodeId(cmd[p].input.widget_id))
               /\ HasDisplayName(id, "n1")

\* the line feeds an id printed as it is brings into a description
LineFeeds(id) == Cardinality({i \in 1..Len(id) : id[i] = "\n"})

\* the number of lines of a description: the format strings and the strings
\* of the inputs hold no line feed, a quoted argument has its line feeds
\* escaped, an id printed as it is keeps them
Lines(d) ==
    1 + (IF Len(d.ids) >= 1 THEN LineFeeds(d.ids[1]) ELSE 0)
      + (IF Len(d.ids) >= 2 THEN LineFeeds(d.ids[2]) ELSE 0)

\* C24: the description of a tool call is one line, whatever the input; it
\* reports the parse error when the input does not parse; it is the same for
\* the same tool and input; making it calls no collaborator and changes
\* nothing but the description itself.
C24_DescriptionOneLinePure ==
    /\ [](\A p \in Procs :
             cmd[p].desc # NoDesc =>
                 /\ Lines(cmd[p].desc) = 1
                 /\ ParseInput(cmd[p].kind, cmd[p].input).err # "" =>
                        cmd[p].desc = ErrorDesc(ParseInput(cmd[p].kind, cmd[p].input).err)
                 /\ \A q \in Procs :
                        (/\ cmd[q].desc # NoDesc
                         /\ cmd[q].kind = cmd[p].kind
                         /\ cmd[q].input = cmd[p].input) => cmd[q].desc = cmd[p].desc)
    /\ [][\A p \in Procs :
             cmd'[p].desc # cmd[p].desc =>
                 /\ store' = store
                 /\ layout' = layout
                 /\ controllers' = controllers
                 /\ calls' = calls /\ sent' = sent /\ updates' = updates]_vars

\* C25: a widget_open that returned success returns success = true, as
\* full_id the id of the block its CreateBlock call made, which is the block
\* of the layout action it queued, and as widget_id the first 8 characters of
\* full_id.
C25_OpenResult ==
    \A p \in Procs :
        (cmd[p].kind = "open" /\ Succeeded(p)) =>
            LET result == ret[p].result IN
            /\ result.success = TRUE
            /\ <<result.full_id>> = OkArgs(p, "CreateBlock")
            /\ result.full_id \in IdPool
            /\ Len(QueuedBy(p)) = 1 /\ QueuedBy(p)[1].BlockId = result.full_id
            /\ Len(result.widget_id) = 8
            /\ result.widget_id = SubSeq(result.full_id, 1, 8)
            /\ Len(result.full_id) > Len(result.widget_id)

C25_Witness ==
    \E p \in Procs :
        /\ cmd[p].kind = "open" /\ Succeeded(p)
        /\ loc[p].parsed.WidgetType = "web" /\ loc[p].parsed.SplitDirection = ""
        /\ ret[p].result.full_id = IdB
        /\ ret[p].result.widget_id = ShortId(IdA)

\* the meta of a block is the one the widget type asks for
MetaByType(meta, parsed) ==
    /\ DOMAIN meta \subseteq {"view", "controller", "connection", "url", "file"}
    /\ meta.view = parsed.WidgetType
    /\ "controller" \in DOMAIN meta <=> parsed.WidgetType = "term"
    /\ "controller" \in DOMAIN meta => meta.controller = "shell"
    /\ "connection" \in DOMAIN meta <=>
           \/ parsed.WidgetType = "term" /\ parsed.Connection \notin {"", "local"}
           \/ parsed.WidgetType = "cpuplot" /\ parsed.Connection # ""
    /\ "connection" \in DOMAIN meta => meta.connection = parsed.Connection
    /\ "url" \in DOMAIN meta <=> parsed.WidgetType = "web"
    /\ "url" \in DOMAIN meta => meta.url = parsed.Url
    /\ "file" \in DOMAIN meta <=> parsed.WidgetType = "preview" /\ parsed.File # ""
    /\ "file" \in DOMAIN meta => meta.file = parsed.File

\* C26: the block a widget_open creates is a block of the invocation's tab
\* whose meta holds view = widget_type and, by type: for term the controller
\* marker, and the connection only when it is neither empty nor local; for
\* web the url; for preview the file only when one is given; for cpuplot the
\* connection only when one is given; and no other key.
C26_MetaByType ==
    /\ [](\A p \in Procs :
             (cmd[p].kind = "open" /\ MadeOk(p, "CreateBlock") # {}) =>
                 MetaByType(loc[p].blockMeta, loc[p].parsed))
    /\ [][\A p \in Procs :
             (pc[p] = "open_create" /\ pc'[p] # pc[p] /\ blocks' # blocks) =>
                 /\ DOMAIN blocks' = DOMAIN blocks \cup {loc'[p].blockId}
                 /\ loc'[p].blockId \notin DOMAIN blocks
                 /\ blocks'[loc'[p].blockId].tab = cmd[p].tab
                 /\ MetaByType(blocks'[loc'[p].blockId].meta, loc[p].parsed)
                 /\ \A id \in DOMAIN blocks : blocks'[id] = blocks[id]]_vars

C26_Witness ==
    \E p \in Procs :
        /\ cmd[p].kind = "open" /\ Succeeded(p)
        /\ loc[p].parsed.WidgetType = "term"
        /\ loc[p].parsed.Connection = "local" /\ loc[p].parsed.Url # ""
        /\ loc[p].blockId \in DOMAIN blocks
        /\ DOMAIN blocks[loc[p].blockId].meta = {"view", "controller"}

\* the last call an invocation has made failed
LastCallFailed(p) == calls[p] # <<>> /\ ~calls[p][Len(calls[p])].ok

\* C27: a collaborator call that fails is the last call of its invocation,
\* which returns an error and no result; an invocation returns an error only
\* from validation or from a failed call; the step that fails changes neither
\* the store, the layout queues nor the controllers, and a block leaves the
\* store only by the DeleteBlock of a widget_close that resolved it, so what
\* the earlier steps did is not undone.  In particular a widget_open of a term
\* whose controller start failed has created its block, has queued the
\* block's layout action, which is still in the tab's log, has deleted
\* nothing, has sent nothing and returns an error without a result.
C27_FailureKeepsEarlierMutations ==
    /\ [](\A p \in Procs :
             /\ \A i \in Idx(p) :
                    ~calls[p][i].ok => i = Len(calls[p]) /\ Failed(p) /\ ret[p].result = Nil
             /\ Failed(p) => ValidationFailed(p) \/ LastCallFailed(p)
             /\ (/\ cmd[p].kind = "open"
                 /\ LastCallFailed(p)
                 /\ calls[p][Len(calls[p])].fn = "ResyncController")
                    => /\ OkArgs(p, "CreateBlock") = <<loc[p].blockId>>
                       /\ Len(QueuedBy(p)) = 1
                       /\ QueuedBy(p)[1].BlockId = loc[p].blockId
                       /\ \E k \in 1..Len(queuedLog[cmd[p].tab]) :
                              queuedLog[cmd[p].tab][k] = QueuedBy(p)[1]
                       /\ Made(p, "DeleteBlock") = {}
                       /\ loc[p].blockId \notin controllers
                       /\ sent[p] = <<>>
                       /\ Failed(p) /\ ret[p].result = Nil)
    /\ [][/\ \A p \in Procs :
                (pc[p] # "done" /\ pc'[p] = "done" /\ ret'[p].err # NoErr) =>
                    /\ store' = store
                    /\ layout' = layout
                    /\ controllers' = controllers
                    /\ queued'[p] = queued[p]
           /\ \A id \in DOMAIN blocks :
                id \notin DOMAIN blocks' =>
                    \E q \in Procs :
                        /\ cmd[q].kind = "close"
                        /\ pc[q] = "close_delete" /\ pc'[q] = "close_send"
                        /\ loc[q].blockId = id]_vars

C27_Witness ==
    \E p \in Procs :
        /\ cmd[p].kind = "open" /\ Failed(p) /\ LastCallFailed(p)
        /\ calls[p][Len(calls[p])].fn = "ResyncController"
        /\ loc[p].blockId \in DOMAIN blocks
        /\ blocks[loc[p].blockId].meta.view = "term"
        /\ loc[p].blockId \notin controllers
        /\ Len(QueuedBy(p)) = 1

\* the identifier fields a command resolves, in the order it resolves them
IdFields(p) ==
    CASE cmd[p].kind = "move" -> <<loc[p].parsed.WidgetId, loc[p].parsed.TargetWidgetId>>
      [] cmd[p].kind = "open" ->
            IF loc[p].parsed.SplitDirection # "" THEN <<loc[p].parsed.TargetWidget>> ELSE <<>>
      [] cmd[p].kind \in {"close", "rename"} -> <<loc[p].parsed.WidgetId>>
      [] OTHER -> <<>>

\* the arguments of the calls of a collaborator, in call order
Args(p, fn) ==
    LET is(c) == c.fn = fn IN
    [i \in 1..Len(SelectSeq(calls[p], is)) |-> SelectSeq(calls[p], is)[i].arg]

\* C28: an invocation, whatever its outcome, makes at most one CreateBlock,
\* DeleteBlock, UpdateObjectMeta, QueueLayoutActionForTab and
\* ResyncController call each, and resolves each of its identifier fields at
\* most once: its resolution calls are, in order, for the first fields of the
\* command.
C28_NoRetry ==
    \A p \in Procs :
        cmd[p].kind # "none" /\ loc[p].parsed # Nil =>
            /\ \A fn \in Mutations : Cardinality(Made(p, fn)) <= 1
            /\ LET resolved == Args(p, "ResolveBlockIdFromPrefix") IN
               /\ Len(resolved) <= Len(IdFields(p))
               /\ resolved = SubSeq(IdFields(p), 1, Len(resolved))

C28_Witness ==
    \E p \in Procs :
        /\ cmd[p].kind = "move" /\ Failed(p) /\ ~ValidationFailed(p)
        /\ loc[p].parsed.WidgetId = loc[p].parsed.TargetWidgetId
        /\ Len(Args(p, "ResolveBlockIdFromPrefix")) = 2
        /\ Made(p, "QueueLayoutActionForTab") # {}
        /\ LastCallFailed(p)

\* C29: the target_widget of a widget_open with a split resolves as it would
\* among the blocks the tab had without the block the open has just created:
\* when exactly one of those starts with the prefix, the resolution yields it
\* (unless the store call itself fails), and the block just created is never
\* the target; no queued Split action has its subject as its target.
C29_SplitTargetAmongOldBlocks ==
    /\ [](\A tab \in Tabs : \A k \in 1..Len(queuedLog[tab]) :
             queuedLog[tab][k].ActionType \in {"splithorizontal", "splitvertical"}
                 => queuedLog[tab][k].BlockId # queuedLog[tab][k].TargetBlockId)
    /\ [][\A p \in Procs :
             (pc[p] = "open_resolve" /\ pc'[p] # pc[p]) =>
                 LET old == PrefixMatches(cmd[p].tab, loc[p].parsed.TargetWidget)
                                \ {loc[p].blockId} IN
                 /\ loc'[p].targetBlockId # loc[p].blockId
                 /\ Cardinality(old) = 1 =>
                        \/ pc'[p] # "done" /\ loc'[p].targetBlockId \in old
                        \/ ret'[p].err.cause \in Causes]_vars

\* C30: no queued Move action has its subject as its target, and a
\* widget_move whose two ids resolved to the same block queues nothing and
\* does not return success.
C30_NoMoveOntoItself ==
    /\ \A tab \in Tabs : \A k \in 1..Len(queuedLog[tab]) :
           queuedLog[tab][k].ActionType \in {"movehorizontal", "movevertical"}
               => queuedLog[tab][k].BlockId # queuedLog[tab][k].TargetBlockId
    /\ \A p \in Procs :
           (/\ cmd[p].kind = "move"
            /\ Cardinality(MadeOk(p, "ResolveBlockIdFromPrefix")) = 2
            /\ loc[p].blockId = loc[p].targetBlockId)
               => QueuedBy(p) = <<>> /\ ~Succeeded(p)

\* the Remove actions queued for a block of a tab so far
RemovesOf(tab, id) ==
    {k \in 1..Len(queuedLog[tab]) :
        /\ queuedLog[tab][k].ActionType = LayoutActionDataType_Remove
        /\ queuedLog[tab][k].BlockId = id}

\* C31: over every sequence and interleaving of commands on a tab, a
\* resubmitted close and two concurrent closes of one widget included, at most
\* one Remove layout action is ever queued for a widget.
C31_AtMostOneRemove ==
    \A tab \in Tabs : \A id \in IdPool : Cardinality(RemovesOf(tab, id)) <= 1

\* C32: when a widget_close has returned, with a result or with an error, a
\* widget it queued a Remove action for is no longer in the store; a close that
\* returns an error has queued nothing.
C32_ClosedWidgetGone ==
    \A p \in Procs :
        (cmd[p].kind = "close" /\ pc[p] = "done") =>
            /\ \A k \in 1..Len(QueuedBy(p)) : QueuedBy(p)[k].BlockId \notin DOMAIN blocks
            /\ Failed(p) => QueuedBy(p) = <<>>

\* C33: the widgets of a tab change only by a widget_open that succeeds, which
\* adds exactly one new widget, and by a widget_close that succeeds, which
\* removes exactly the widget it resolved; widget_rename and widget_move leave
\* them as they are, and no command changes the widgets or the layout action
\* queue of a tab it is not bound to.
C33_WidgetSetFrame ==
    /\ [][\A tab \in Tabs :
            LET before == TabBlockIds(tab)
                after == {id \in DOMAIN blocks' : blocks'[id].tab = tab} IN
            after # before =>
                \E p \in Procs :
                    /\ cmd[p].tab = tab
                    /\ pc'[p] # pc[p]
                    /\ \/ /\ cmd[p].kind = "open"
                          /\ \E id \in IdPool \ usedIds : after = before \cup {id}
                       \/ /\ cmd[p].kind = "close"
                          /\ loc[p].blockId \in before
                          /\ after = before \ {loc[p].blockId}]_vars
    /\ [](\A p \in Procs :
            (pc[p] = "done" /\ Failed(p)) =>
                /\ cmd[p].kind = "open" => MadeOk(p, "CreateBlock") = {}
                /\ cmd[p].kind = "close" => MadeOk(p, "DeleteBlock") = {})
    /\ [](\A p \in Procs :
            Succeeded(p) =>
                /\ cmd[p].kind = "open" => Cardinality(MadeOk(p, "CreateBlock")) = 1
                /\ cmd[p].kind = "close" => Cardinality(MadeOk(p, "DeleteBlock")) = 1
                /\ cmd[p].kind \in {"rename", "move"} =>
                       MadeOk(p, "CreateBlock") \cup MadeOk(p, "DeleteBlock") = {})
    /\ [][\A tab \in Tabs :
            (\A p \in Procs : pc'[p] # pc[p] => cmd[p].tab # tab /\ cmd'[p].tab # tab) =>
                /\ {id \in DOMAIN blocks' : blocks'[id].tab = tab} = TabBlockIds(tab)
                /\ queuedLog'[tab] = queuedLog[tab]]_vars

\* C34: every invocation that has started returns: it reaches its return
\* statement as long as no collaborator call waits beyond the deadline of the
\* callback's context; what it returns is a result or an error, never both and
\* never neither.
C34_Terminates ==
    /\ [](\A p \in Procs :
            /\ pc[p] = "done" => ((ret[p].err = NoErr) # (ret[p].result = Nil))
            /\ ~(ret[p].err # NoErr /\ ret[p].result # Nil))
    /\ \A p \in Procs : (cmd[p].kind # "none") ~> (pc[p] = "done")

\* an invocation has returned the error of the deadline after some of its
\* calls went well, while the other invocation is under way
C34_Witness ==
    \E p, q \in Procs :
        /\ Failed(p) /\ ret[p].err.cause = "Timeout" /\ Len(calls[p]) >= 3
        /\ pc[q] # "idle" /\ cmd[q].kind # "none"

\* name is value without the whitespace at its two ends
IsTrimOf(name, value) ==
    /\ name # <<>> => name[1] \notin Whitespace /\ name[Len(name)] \notin Whitespace
    /\ \E i \in 0..Len(value) :
         /\ i + Len(name) <= Len(value)
         /\ name = SubSeq(value, i + 1, i + Len(name))
         /\ \A k \in (1..i) \cup ((i + Len(name) + 1)..Len(value)) : value[k] \in Whitespace

\* the display name a request sets, <<>> when it clears the name
NameSet(req) ==
    IF req.meta["display:name"] = Null THEN <<>> ELSE req.meta["display:name"].s

\* C35: confirming the rename modal (the Rename button or Enter) with a name
\* that, trimmed, equals the current name closes the modal and issues no
\* metadata update; with any other name it issues exactly one update, for the
\* modal's block, whose only key is the display name, set to the trimmed name,
\* or to null when the trimmed name is empty.  Nothing else issues an update.
C35_ConfirmIssuesOneUpdate ==
    /\ [][(OnOk \/ OnKeyDown) =>
            IF IsTrimOf(props.currentName, newName)
            THEN ~modalOpen' /\ rpcLog' = rpcLog /\ inFlight' = inFlight /\ blocks' = blocks
            ELSE /\ Len(rpcLog') = Len(rpcLog) + 1
                 /\ SubSeq(rpcLog', 1, Len(rpcLog)) = rpcLog
                 /\ inFlight' = <<rpcLog'[Len(rpcLog')]>>
                 /\ LET req == rpcLog'[Len(rpcLog')] IN
                    /\ req.oref = <<"block", props.blockOid>>
                    /\ DOMAIN req.meta = {"display:name"}
                    /\ req.meta["display:name"] = Null <=> trim(newName) = <<>>
                    /\ IsTrimOf(NameSet(req), newName)]_vars
    /\ [][rpcLog' # rpcLog => (OnOk \/ OnKeyDown)]_vars

\* a first update, which set a name, was rejected, and a second one, which
\* clears the name, went through and closed the modal
C35_Witness ==
    /\ Len(rpcLog) = 2
    /\ rpcLog[1].meta["display:name"] # Null
    /\ rpcLog[2].meta["display:name"] = Null
    /\ props.currentName # <<>>
    /\ "display:name" \notin DOMAIN blocks[props.blockOid].meta
    /\ ~modalOpen

\* C36: a rename attempt closes the modal only when its update went through
\* or the name was unchanged; a rejected update leaves the modal as open as it
\* was and sets the error message; either answer resets the in-progress flag,
\* which is never set while no update is awaited.
C36_AttemptEnds ==
    /\ [](isRenaming => inFlight # <<>>)
    /\ [][HandleRenameRejected =>
            modalOpen' = modalOpen /\ error' \in RpcErrors /\ ~isRenaming']_vars
    /\ [][HandleRenameResolved => ~modalOpen' /\ ~isRenaming']_vars
    /\ [][((OnOk \/ OnKeyDown \/ HandleRenameResolved \/ HandleRenameRejected)
             /\ modalOpen /\ ~modalOpen') =>
            \/ inFlight # <<>> /\ blocks' = SetMetaCommand(Head(inFlight))
            \/ inFlight = <<>> /\ IsTrimOf(props.currentName, newName)]_vars

\* an update was rejected: the modal is open, shows the error and can be
\* confirmed again
C36_Witness ==
    /\ modalOpen
    /\ error \in RpcErrors
    /\ ~isRenaming
    /\ inFlight = <<>>
    /\ Len(rpcLog) = 1

====
